---- MODULE Spec2Model ----
(***************************************************************************)
(* Voice-driven presentation navigator (mdonmez/moves).                    *)
(*                                                                         *)
(* The module models the runtime of PresentationController: the main       *)
(* thread running control(), the audio driver callback, the decode thread  *)
(* (process_audio) and the navigator thread (navigate_presentation),       *)
(* together with the chunk producer they use.                              *)
(*                                                                         *)
(* Spec and FairSpec follow a session's navigation, SpecAudio follows the   *)
(* audio queue of a session over a two-section script, SpecCandidates      *)
(* applies get_candidate_chunks to arbitrary chunk lists.                  *)
(*                                                                         *)
(* A text is modelled as the sequence of its whitespace-separated tokens,  *)
(* so str.split() and " ".join() are the identity on that representation   *)
(* while normalize_text changes tokens (lower-casing, punctuation removal).*)
(***************************************************************************)
EXTENDS Integers, Sequences, FiniteSets, TLC

\* ------------------------------------------------------------------ bounds
\* Largest number of sections of a loaded script.
MaxSections == 5
\* Largest number of words in one section of a loaded script.
MaxWords == 2
\* Number of audio frames the driver delivers in a session that follows the
\* navigation.
MaxFrames == 2
\* Number of audio frames the driver delivers in a session that follows the
\* audio queue (more than the queue holds).
MaxAudioFrames == 6
\* window_size given to the constructor (the program's default is 12).
WindowSize == 2

\* ------------------------------------------------------- program constants
\* deque(maxlen=5) of the audio queue.
QueueMaxLen == 5
\* idx - 2 in get_candidate_chunks.
WindowBack == 2
\* A window that reaches one section further ahead.
WindowAheadWider == 3 + 1

\* idx + 3 in get_candidate_chunks.
WindowAhead == 3

\* --------------------------------------------------------------- utilities
Last(s) == s[Len(s)]

Abs(n) == IF n < 0 THEN -n ELSE n

\* s[-n:] of Python for n > 0.
LastN(s, n) == IF Len(s) <= n THEN s ELSE SubSeq(s, Len(s) - n + 1, Len(s))

\* ---------------------------------------------------------- text_normalizer
\* Tokens of a raw text are words in either case ("A", "a", "b") and the
\* punctuation mark "!".
Punctuation == {"!"}

\* text.lower() on one token.
LowerToken(tok) == IF tok = "A" THEN "a" ELSE tok

\* What normalize_text makes of a text given as its whitespace-separated
\* tokens, when the call returns: lower-case, turn every character that is no
\* word character into a space, collapse whitespace and strip, so punctuation
\* tokens vanish and the others are lower-cased.  (normalize_text_call below
\* models the call itself, character by character, with the translate table
\* that makes it raise.)
RECURSIVE normalize_text(_)
normalize_text(text) ==
    IF text = <<>> THEN <<>>
    ELSE IF text[1] \in Punctuation THEN normalize_text(Tail(text))
    ELSE <<LowerToken(text[1])>> \o normalize_text(Tail(text))

\* ---------------------------------------------------------- chunk_producer
\* Sections of a processed script: section_index is the position in the list
\* (0-based), content a sequence of words.
ScriptWord(k, j) == IF (k + j) % 2 = 0 THEN "A" ELSE "b"

MakeSection(k, nwords) ==
    [content |-> [j \in 1..nwords |-> ScriptWord(k, j)], section_index |-> k]

MakeSections(n, nwords) == [p \in 1..n |-> MakeSection(p - 1, nwords)]

\* The scripts a session is started with: a single section of one word (fewer
\* words than a window) or MaxSections sections of 1..MaxWords words each.
Scripts ==
    { MakeSections(1, 1) }
    \cup { MakeSections(MaxSections, nwords) : nwords \in 1..MaxWords }

\* [(word, section) for section in sections for word in section.content.split()]
RECURSIVE words_with_sources(_)
words_with_sources(secs) ==
    IF secs = <<>> THEN <<>>
    ELSE [j \in 1..Len(secs[1].content) |-> <<secs[1].content[j], secs[1]>>]
         \o words_with_sources(Tail(secs))

\* sorted(set, key=section_index): the sections of the set in index order.
RECURSIVE SortedSections(_)
SortedSections(S) ==
    IF S = {} THEN <<>>
    ELSE LET m == CHOOSE s \in S : \A t \in S : s.section_index <= t.section_index
         IN  <<m>> \o SortedSections(S \ {m})

\* The chunk of the window that starts at word i, when normalize_text returns.
MakeChunk(wws, i, w) ==
    [partial_content |-> normalize_text([j \in 1..w |-> wws[i + j - 1][1]]),
     source_sections |-> SortedSections({ wws[i + j - 1][2] : j \in 1..w })]

\* The list generate_chunks builds when every normalize_text call returns
\* (generate_chunks_call below models the call with its exception).
generate_chunks(secs, w) ==
    LET wws == words_with_sources(secs)
    IN  IF Len(wws) < w THEN <<>>
        ELSE [i \in 1..(Len(wws) - w + 1) |-> MakeChunk(wws, i, w)]

\* The filter without the rejection of single-section chunks at the ends.
IsCandidateKeepingEnds(idx, chunk) ==
    \A k \in 1..Len(chunk.source_sections) :
        /\ idx - WindowBack <= chunk.source_sections[k].section_index
        /\ chunk.source_sections[k].section_index <= idx + WindowAhead

\* The filter of get_candidate_chunks for one chunk.
IsCandidate(idx, chunk) ==
    LET start == idx - WindowBack
        end   == idx + WindowAhead
    IN  /\ \A k \in 1..Len(chunk.source_sections) :
              /\ start <= chunk.source_sections[k].section_index
              /\ chunk.source_sections[k].section_index <= end
        /\ ~ ( /\ Len(chunk.source_sections) = 1
               /\ chunk.source_sections[1].section_index \in {start, end} )

\* The candidates in the reverse of their order in all_chunks.
get_candidate_chunks_reversed(cur, all_chunks) ==
    LET kept == SelectSeq(all_chunks, LAMBDA chunk : IsCandidate(cur.section_index, chunk))
    IN  [k \in 1..Len(kept) |-> kept[Len(kept) + 1 - k]]

get_candidate_chunks(cur, all_chunks) ==
    SelectSeq(all_chunks, LAMBDA chunk : IsCandidate(cur.section_index, chunk))

\* ------------------------------------------------------------------- state
VARIABLES
    sections,               \* self.sections
    chunks,                 \* self.chunks
    start_section,          \* the start_section argument of the constructor
    current_section,        \* self.current_section
    audio_queue,            \* self.audio_queue, frames numbered in capture order
    captured,               \* number of frames the driver has delivered
    shutdown_flag,          \* self.shutdown_flag
    recent_words,           \* self.recent_words
    previous_recent_words,  \* self.previous_recent_words
    navigator_working,      \* self.navigator_working
    stream_open,            \* the sd.InputStream context is entered
    control_error,          \* control() ends by propagating an exception
    stream_failed,          \* the driver has stopped delivering audio
    pc_main,                \* position of the main thread in control()
    pc_dec,                 \* position of the decode thread in process_audio()
    pc_nav,                 \* position of the navigator thread
    fed,                    \* frames given to stream.accept_waveform, in order
    words,                  \* local `words` of process_audio
    current_words,          \* local `current_words` of navigate_presentation
    compared,               \* similarity_calculator.compare was called in this step
    target_section,         \* local `target_section` of navigate_presentation
    presses_done,           \* loop variable `_` of the key loop
    step_keys,              \* key events emitted by the current navigation step
    call_args,              \* arguments of a direct call of a pure function
    call_result             \* what that call returned

\* What no action of the controller changes.
constVars == <<sections, chunks, start_section, call_args, call_result>>

mainVars == <<stream_open, control_error, stream_failed, pc_main>>

captureVars == <<audio_queue, captured>>

decVars == <<pc_dec, fed, words, recent_words>>

navVars == <<pc_nav, current_section, previous_recent_words, navigator_working,
             current_words, compared, target_section, presses_done, step_keys>>

vars == <<constVars, mainVars, captureVars, decVars, navVars, shutdown_flag>>

\* Placeholder of a local that holds no section yet.
NoSection == [content |-> <<>>, section_index |-> -1]

\* No direct call of a pure function is being made.
NoCall == [fn |-> "none"]

NoResult == [returned |-> FALSE]

\* PresentationController.__init__, called as the application calls it: with
\* a loaded script and start_section = sections[0].  The sessions are those of
\* a controller whose construction has returned, with the chunk list of the
\* script; the decode thread's normalize_text calls are taken to return too.
InitController(script) ==
    /\ sections = script
    /\ start_section = sections[1]
    /\ current_section = start_section
    /\ chunks = generate_chunks(sections, WindowSize)
    /\ audio_queue = <<>>
    /\ captured = 0
    /\ shutdown_flag = FALSE
    /\ recent_words = <<>>
    /\ previous_recent_words = <<>>
    /\ navigator_working = FALSE
    /\ stream_open = FALSE
    /\ control_error = FALSE
    /\ stream_failed = FALSE
    /\ pc_main = "start_audio"
    /\ pc_dec = "unstarted"
    /\ pc_nav = "unstarted"
    /\ fed = <<>>
    /\ words = <<>>
    /\ current_words = <<>>
    /\ compared = FALSE
    /\ target_section = NoSection
    /\ presses_done = 0
    /\ step_keys = <<>>

Init ==
    /\ \E script \in Scripts : InitController(script)
    /\ call_args = NoCall
    /\ call_result = NoResult

\* ------------------------------------------------------- control(), main thread
\* audio_thread.start()
StartAudioThread ==
    /\ pc_main = "start_audio"
    /\ pc_main' = "start_nav"
    /\ pc_dec' = "loop"
    /\ UNCHANGED <<constVars, stream_open, control_error, stream_failed,
                   captureVars,
                   fed, words, recent_words, navVars, shutdown_flag>>

\* self.navigator.start()
StartNavigator ==
    /\ pc_main = "start_nav"
    /\ pc_main' = "open"
    /\ pc_nav' = "loop"
    /\ UNCHANGED <<constVars, stream_open, control_error, stream_failed,
                   captureVars, decVars,
                   current_section, previous_recent_words, navigator_working,
                   current_words, compared, target_section, presses_done,
                   step_keys, shutdown_flag>>

\* with sd.InputStream(...): entering the context opens the device, or raises.
OpenStream ==
    /\ pc_main = "open"
    /\ \/ /\ stream_open' = TRUE
          /\ pc_main' = "sleep"
          /\ UNCHANGED control_error
       \/ /\ pc_main' = "finally"
          /\ control_error' = TRUE
          /\ UNCHANGED stream_open
    /\ UNCHANGED <<constVars, stream_failed, captureVars, decVars, navVars,
                   shutdown_flag>>

\* while not self.shutdown_flag.is_set(): sd.sleep(20); leaving the with
\* block closes the stream before the finally clause runs.
MainLoop ==
    /\ pc_main = "sleep"
    /\ IF shutdown_flag
         THEN /\ stream_open' = FALSE
              /\ pc_main' = "finally"
         ELSE UNCHANGED <<stream_open, pc_main>>
    /\ UNCHANGED <<constVars, control_error, stream_failed, captureVars,
                   decVars, navVars, shutdown_flag>>

\* Ctrl+C inside the try block: except KeyboardInterrupt: pass.
KeyboardInterrupt ==
    /\ pc_main \in {"open", "sleep"}
    /\ stream_open' = FALSE
    /\ pc_main' = "finally"
    /\ UNCHANGED <<constVars, control_error, stream_failed, captureVars,
                   decVars, navVars, shutdown_flag>>

\* The input device stops delivering audio while the stream runs (the device
\* is lost, the driver aborts the stream).  The driver reports it through the
\* callback's status argument, which the lambda discards, and through the
\* stream's `active` attribute, which the loop does not read: nothing is
\* raised in the main thread, whose loop only polls shutdown_flag.
StreamAbort ==
    /\ pc_main = "sleep"
    /\ stream_open
    /\ ~stream_failed
    /\ stream_failed' = TRUE
    /\ UNCHANGED <<constVars, stream_open, control_error, pc_main, captureVars,
                   decVars, navVars, shutdown_flag>>

\* finally: self.shutdown_flag.set()
SetShutdown ==
    /\ pc_main = "finally"
    /\ shutdown_flag' = TRUE
    /\ pc_main' = "join_audio"
    /\ UNCHANGED <<constVars, stream_open, control_error, stream_failed,
                   captureVars, decVars,
                   navVars>>

\* if audio_thread.is_alive(): audio_thread.join(timeout=1.0)
\* The join returns when the thread has ended or when the timeout expires.
JoinAudioThread ==
    /\ pc_main = "join_audio"
    /\ pc_main' = "join_nav"
    /\ UNCHANGED <<constVars, stream_open, control_error, stream_failed,
                   captureVars, decVars,
                   navVars, shutdown_flag>>

\* if self.navigator.is_alive(): self.navigator.join(timeout=1.0)
JoinNavigator ==
    /\ pc_main = "join_nav"
    /\ pc_main' = "done"
    /\ UNCHANGED <<constVars, stream_open, control_error, stream_failed,
                   captureVars, decVars,
                   navVars, shutdown_flag>>

\* --------------------------------------------------- audio driver callback
\* An append that discards the new item when the deque is full.
DequeAppendDropNewest(q, x, maxlen) ==
    IF Len(q) >= maxlen THEN q ELSE Append(q, x)

\* An append at the left end (appendleft).
DequeAppendLeft(q, x, maxlen) ==
    IF Len(q) >= maxlen THEN <<x>> \o SubSeq(q, 1, Len(q) - 1) ELSE <<x>> \o q

\* deque.append on a deque with maxlen: a full deque discards its leftmost
\* item.
DequeAppend(q, x, maxlen) ==
    IF Len(q) >= maxlen THEN Tail(q) \o <<x>> ELSE Append(q, x)

\* A driver that delivers frames without an open stream.
DeliveringUnopened == ~stream_failed

\* The driver calls the callback only while the stream is open and has not
\* failed.
Delivering == stream_open /\ ~stream_failed

\* callback=lambda indata, *_: self.audio_queue.append(indata[:, 0].copy())
\* The driver calls it once per frame while the stream is open; the model
\* stops after `limit` frames.
Capture(limit) ==
    /\ Delivering
    /\ captured < limit
    /\ captured' = captured + 1
    /\ audio_queue' = DequeAppend(audio_queue, captured + 1, QueueMaxLen)
    /\ UNCHANGED <<constVars, mainVars, decVars, navVars, shutdown_flag>>

\* ------------------------------------------- process_audio(), decode thread
\* n words, alternately "A" and "b".
Utterance(n) == [j \in 1..n |-> IF j % 2 = 1 THEN "A" ELSE "b"]

\* The texts recognizer.get_result returns in the model: the empty text, a
\* text without a word, a text of fewer than window_size words, one of
\* exactly window_size words and a longer one with punctuation.
RecognizerTexts ==
    { <<>>, <<"!">>, Utterance(WindowSize - 1), Utterance(WindowSize),
      <<"b", "!">> \o Utterance(WindowSize + 1) }

\* Every word of the normalised text, without the slice.
AllWords(text) == normalize_text(text)

\* normalize_text(text).strip().split()[-self.window_size:]
LastWords(text) == LastN(normalize_text(text), WindowSize)

\* A loop condition that never ends the loop (while True).
LoopRunsOn == FALSE

\* The condition that ends a worker's loop: shutdown_flag.is_set().
LoopEnds == shutdown_flag

\* while not self.shutdown_flag.is_set():  (an iteration starts with no
\* `words` yet)
DecodeLoop ==
    /\ pc_dec = "loop"
    /\ pc_dec' = IF LoopEnds THEN "done" ELSE "queue"
    /\ words' = <<>>
    /\ UNCHANGED <<constVars, mainVars, captureVars, fed, recent_words,
                   navVars, shutdown_flag>>

\* if self.audio_queue: ... else: self.shutdown_flag.wait(0.001); continue
DecodeQueue ==
    /\ pc_dec = "queue"
    /\ pc_dec' = IF audio_queue # <<>> THEN "pop" ELSE "loop"
    /\ UNCHANGED <<constVars, mainVars, captureVars, fed, words, recent_words,
                   navVars, shutdown_flag>>

\* chunk = self.audio_queue.popleft(), then accept_waveform, decode_stream and
\* get_result on the thread's own recognizer stream.  popleft on an empty deque
\* and a recognizer error both raise, which ends the thread with RuntimeError.
\* A non-empty text whose last words differ from recent_words is published.
DecodePop ==
    /\ pc_dec = "pop"
    /\ IF audio_queue = <<>>
         THEN /\ pc_dec' = "failed"
              /\ UNCHANGED <<audio_queue, fed, words>>
         ELSE /\ audio_queue' = Tail(audio_queue)
              /\ fed' = Append(fed, Head(audio_queue))
              /\ \/ /\ pc_dec' = "failed"
                    /\ UNCHANGED words
                 \/ \E text \in RecognizerTexts :
                       LET w == LastWords(text)
                       IN  IF text # <<>> /\ w # <<>> /\ w # recent_words
                             THEN /\ words' = w
                                  /\ pc_dec' = "clear"
                             ELSE /\ pc_dec' = "loop"
                                  /\ UNCHANGED words
    /\ UNCHANGED <<constVars, mainVars, captured, recent_words, navVars,
                   shutdown_flag>>

\* A publication without the clear().
DecodeClearSkipped ==
    /\ pc_dec = "clear"
    /\ pc_dec' = "extend"
    /\ UNCHANGED <<constVars, mainVars, captureVars, fed, words, recent_words,
                   navVars, shutdown_flag>>

\* self.recent_words.clear()
DecodeClear ==
    /\ pc_dec = "clear"
    /\ recent_words' = <<>>
    /\ pc_dec' = "extend"
    /\ UNCHANGED <<constVars, mainVars, captureVars, fed, words, navVars,
                   shutdown_flag>>

\* A decode thread that also marks the published words as processed.
DecodeExtendMarkingSeen ==
    /\ pc_dec = "extend"
    /\ recent_words' = LastN(recent_words \o words, WindowSize)
    /\ previous_recent_words' = recent_words'
    /\ pc_dec' = "loop"
    /\ UNCHANGED <<constVars, mainVars, captureVars, fed, words, pc_nav,
                   current_section, navigator_working, current_words, compared,
                   target_section, presses_done, step_keys, shutdown_flag>>

\* self.recent_words.extend(words) on a deque(maxlen=window_size)
DecodeExtend ==
    /\ pc_dec = "extend"
    /\ recent_words' = LastN(recent_words \o words, WindowSize)
    /\ pc_dec' = "loop"
    /\ UNCHANGED <<constVars, mainVars, captureVars, fed, words, navVars,
                   shutdown_flag>>

\* ------------------------------- navigate_presentation(), navigator thread
\* navigation_distance = target_idx - current_idx
navigation_distance == target_section.section_index - current_section.section_index

\* The two keys exchanged.
NavigationKeySwapped(distance) == IF distance > 0 THEN "left" ELSE "right"

\* key = Key.right if navigation_distance > 0 else Key.left
NavigationKey(distance) == IF distance > 0 THEN "right" ELSE "left"

\* A key loop that is entered whatever the distance.
AfterCompareAlwaysPress(distance) == "press"

\* Where the navigator goes after the similarity result is known.
AfterCompare(distance) == IF distance # 0 THEN "press" ELSE "assign"

\* while not self.shutdown_flag.is_set():  (an iteration starts with its
\* locals unset and nothing emitted yet)
NavLoop ==
    /\ pc_nav = "loop"
    /\ pc_nav' = IF LoopEnds THEN "done" ELSE "snapshot"
    /\ current_words' = <<>>
    /\ compared' = FALSE
    /\ target_section' = NoSection
    /\ presses_done' = 0
    /\ step_keys' = <<>>
    /\ UNCHANGED <<constVars, mainVars, captureVars, decVars, current_section,
                   previous_recent_words, navigator_working, shutdown_flag>>

\* A condition without the test of the snapshot's length.
StepDueAnyLength(snapshot) ==
    /\ snapshot # previous_recent_words
    /\ ~navigator_working

\* The condition under which the snapshot starts a navigation step.
StepDue(snapshot) ==
    /\ Len(snapshot) >= WindowSize
    /\ snapshot # previous_recent_words
    /\ ~navigator_working

\* current_words = list(self.recent_words); with fewer than window_size words,
\* or with nothing new, wait 1 ms and loop; otherwise set navigator_working
\* and enter the step.
NavSnapshot ==
    /\ pc_nav = "snapshot"
    /\ current_words' = recent_words
    /\ IF StepDue(recent_words)
         THEN /\ navigator_working' = TRUE
              /\ pc_nav' = "candidates"
         ELSE /\ pc_nav' = "loop"
              /\ UNCHANGED navigator_working
    /\ UNCHANGED <<constVars, mainVars, captureVars, decVars, current_section,
                   previous_recent_words, compared, target_section,
                   presses_done, step_keys, shutdown_flag>>

\* A step that leaves navigator_working set.
FlagLeftSet == TRUE

\* What the finally clause leaves in navigator_working.
FlagAfterStep == FALSE

\* A skip that ends the navigator's loop (break instead of continue).
AfterSkipBreak == "done"

\* Where the navigator continues after a step without candidates (continue).
AfterSkip == "loop"

\* candidate_chunks = get_candidate_chunks(...); if not candidate_chunks:
\* continue (the finally clause clears navigator_working on the way out).
NavCandidates ==
    /\ pc_nav = "candidates"
    /\ IF get_candidate_chunks(current_section, chunks) = <<>>
         THEN /\ navigator_working' = FlagAfterStep
              /\ pc_nav' = AfterSkip
         ELSE /\ pc_nav' = "compare"
              /\ UNCHANGED navigator_working
    /\ UNCHANGED <<constVars, mainVars, captureVars, decVars, current_section,
                   previous_recent_words, current_words, compared,
                   target_section, presses_done, step_keys, shutdown_flag>>

\* The chunk of similarity_results[0]: compare returns the candidates ordered
\* by a score that the two external metrics decide, so any candidate can be
\* first.
BestChunks(candidates) == { candidates[c] : c \in 1..Len(candidates) }

\* A target rebuilt from the chunk's normalised text instead of taken from
\* source_sections.
TargetOfRebuilt(best_chunk) ==
    [content |-> normalize_text(Last(best_chunk.source_sections).content),
     section_index |-> Last(best_chunk.source_sections).section_index]

\* target_section = best_chunk.source_sections[-1]
TargetOf(best_chunk) == Last(best_chunk.source_sections)

\* similarity_results = self.similarity_calculator.compare(input_text,
\* candidate_chunks), which raises when a metric fails; then the target and
\* the distance are computed.
NavCompare ==
    /\ pc_nav = "compare"
    /\ compared' = TRUE
    /\ \/ /\ pc_nav' = "failed"
          /\ navigator_working' = FlagAfterStep
          /\ UNCHANGED <<target_section, presses_done>>
       \/ \E best_chunk \in BestChunks(get_candidate_chunks(current_section, chunks)) :
             /\ target_section' = TargetOf(best_chunk)
             /\ presses_done' = 0
             /\ pc_nav' = AfterCompare(TargetOf(best_chunk).section_index
                                        - current_section.section_index)
             /\ UNCHANGED navigator_working
    /\ UNCHANGED <<constVars, mainVars, captureVars, decVars, current_section,
                   previous_recent_words, current_words, step_keys,
                   shutdown_flag>>

\* self.keyboard_controller.press(key), which raises when the event cannot be
\* emitted.
NavPress ==
    /\ pc_nav = "press"
    /\ \/ /\ pc_nav' = "failed"
          /\ navigator_working' = FlagAfterStep
          /\ UNCHANGED step_keys
       \/ /\ step_keys' = Append(step_keys,
                                 <<NavigationKey(navigation_distance), "press">>)
          /\ pc_nav' = "release"
          /\ UNCHANGED navigator_working
    /\ UNCHANGED <<constVars, mainVars, captureVars, decVars, current_section,
                   previous_recent_words, current_words, compared,
                   target_section, presses_done, shutdown_flag>>

\* self.keyboard_controller.release(key); the loop runs abs_distance times.
NavRelease ==
    /\ pc_nav = "release"
    /\ \/ /\ pc_nav' = "failed"
          /\ navigator_working' = FlagAfterStep
          /\ UNCHANGED <<step_keys, presses_done>>
       \/ /\ step_keys' = Append(step_keys,
                                 <<NavigationKey(navigation_distance), "release">>)
          /\ presses_done' = presses_done + 1
          /\ pc_nav' = IF presses_done + 1 < Abs(navigation_distance)
                         THEN "press" ELSE "assign"
          /\ UNCHANGED navigator_working
    /\ UNCHANGED <<constVars, mainVars, captureVars, decVars, current_section,
                   previous_recent_words, current_words, compared,
                   target_section, shutdown_flag>>

\* A step that remembers the contents of recent_words at its end instead of
\* its own snapshot.
NavAssignLatest ==
    /\ pc_nav = "assign"
    /\ current_section' = target_section
    /\ previous_recent_words' = recent_words
    /\ navigator_working' = FlagAfterStep
    /\ pc_nav' = "loop"
    /\ UNCHANGED <<constVars, mainVars, captureVars, decVars, current_words,
                   compared, target_section, presses_done, step_keys,
                   shutdown_flag>>

\* self.current_section = target_section
\* self.previous_recent_words = current_words.copy()
\* finally: self.navigator_working = False; then wait 1 ms and loop.
NavAssign ==
    /\ pc_nav = "assign"
    /\ current_section' = target_section
    /\ previous_recent_words' = current_words
    /\ navigator_working' = FlagAfterStep
    /\ pc_nav' = "loop"
    /\ UNCHANGED <<constVars, mainVars, captureVars, decVars, current_words,
                   compared, target_section, presses_done, step_keys,
                   shutdown_flag>>

\* ----------------------------------------------------------- specification
Step(limit) ==
    \/ StartAudioThread
    \/ StartNavigator
    \/ OpenStream
    \/ MainLoop
    \/ KeyboardInterrupt
    \/ StreamAbort
    \/ SetShutdown
    \/ JoinAudioThread
    \/ JoinNavigator
    \/ Capture(limit)
    \/ DecodeLoop
    \/ DecodeQueue
    \/ DecodePop
    \/ DecodeClear
    \/ DecodeExtend
    \/ NavLoop
    \/ NavSnapshot
    \/ NavCandidates
    \/ NavCompare
    \/ NavPress
    \/ NavRelease
    \/ NavAssign

Next == Step(MaxFrames)

Spec == Init /\ [][Next]_vars

\* The scheduler runs every thread that can take a step and the driver keeps
\* delivering frames; pressing Ctrl+C is up to the user.
Fairness ==
    /\ WF_vars(StartAudioThread \/ StartNavigator \/ OpenStream \/ MainLoop
               \/ SetShutdown \/ JoinAudioThread \/ JoinNavigator)
    /\ WF_vars(Capture(MaxFrames))
    /\ WF_vars(DecodeLoop \/ DecodeQueue \/ DecodePop \/ DecodeClear
               \/ DecodeExtend)
    /\ WF_vars(NavLoop \/ NavSnapshot \/ NavCandidates \/ NavCompare
               \/ NavPress \/ NavRelease \/ NavAssign)

FairSpec == Spec /\ Fairness

\* A session over a script of two sections that follows the audio queue.
InitAudio ==
    /\ InitController(MakeSections(2, WindowSize))
    /\ call_args = NoCall
    /\ call_result = NoResult

NextAudio == Step(MaxAudioFrames)

SpecAudio == InitAudio /\ [][NextAudio]_vars

\* The same session under the fair scheduler, for what has to happen
\* eventually.
FairSpecAudio == InitAudio /\ [][Next]_vars /\ Fairness

\* ------------------------------------- get_candidate_chunks called directly
\* Largest section index of the chunks handed to get_candidate_chunks.
MaxIndex == 4
\* Largest number of source sections of such a chunk.
MaxSources == 2
\* Largest length of such a chunk list.
MaxChunks == 2

\* A section of the given index (its content plays no part in the filter).
SectionAt(k) == [content |-> <<"b">>, section_index |-> k]

\* Chunks over every non-empty set of at most MaxSources sections.
ArgChunks ==
    { [partial_content |-> <<"b">>, source_sections |-> SortedSections(S)] :
        S \in { T \in SUBSET { SectionAt(k) : k \in 0..MaxIndex } :
                   T # {} /\ Cardinality(T) <= MaxSources } }

RECURSIVE ListsUpTo(_, _)
ListsUpTo(S, n) ==
    IF n = 0 THEN { <<>> }
    ELSE ListsUpTo(S, n - 1)
         \cup { Append(l, x) : l \in { m \in ListsUpTo(S, n - 1) : Len(m) = n - 1 },
                               x \in S }

InitCandidates ==
    /\ InitController(MakeSections(1, 1))
    /\ call_args \in { [fn |-> "get_candidate_chunks",
                        current_section |-> SectionAt(i),
                        all_chunks |-> l] :
                         i \in 0..MaxIndex, l \in ListsUpTo(ArgChunks, MaxChunks) }
    /\ call_result = NoResult

CallGetCandidateChunks ==
    /\ call_args.fn = "get_candidate_chunks"
    /\ ~call_result.returned
    /\ call_result' = [returned |-> TRUE,
                       value |-> get_candidate_chunks(call_args.current_section,
                                                      call_args.all_chunks)]
    /\ UNCHANGED <<sections, chunks, start_section, call_args, mainVars,
                   captureVars, decVars, navVars, shutdown_flag>>

NextCandidates == CallGetCandidateChunks

SpecCandidates == InitCandidates /\ [][NextCandidates]_vars


\* --------------------------------------- SimilarityCalculator.compare called
\* Scores are counted in hundredths (0.5 is 50, 1.0 is 100) and weights in
\* tenths, so a fused score is counted in thousandths.
\* Largest number of candidates handed to compare.
MaxCandidates == 3

\* The floor of `res.score >= 0.5`.
ScoreFloor == 50

\* The normalised score 1.0.
ScoreOne == 100

\* Raw scores a metric gives a candidate: one below the floor, the floor
\* itself and two above it.
RawScores == {30, 50, 70, 90}

\* (semantic_weight, phonetic_weight): the defaults 0.4 and 0.6, and 0.8 and 0.2.
WeightPairs == { <<4, 6>>, <<8, 2>> }

SetMin(S) == CHOOSE x \in S : \A y \in S : x <= y

SetMax(S) == CHOOSE x \in S : \A y \in S : x >= y

\* A floor that a score of exactly 0.5 does not pass (res.score > 0.5).
IsValidAboveFloor(score) == score > ScoreFloor

\* res.score >= 0.5
IsValid(score) == score >= ScoreFloor

\* _normalize_scores: `results` maps the candidates the metric has a result
\* for (a candidate is identified by id(res.chunk), here its position in the
\* candidate list) to the raw score; the order of the results plays no part.
normalize_scores(results) ==
    LET valid_scores == { results[c] : c \in { d \in DOMAIN results : IsValid(results[d]) } }
    IN  IF DOMAIN results = {} THEN [c \in {} |-> 0]
        ELSE IF valid_scores = {} THEN [c \in DOMAIN results |-> 0]
        ELSE LET min_val == SetMin(valid_scores)
                 max_val == SetMax(valid_scores)
             IN  IF max_val = min_val
                   THEN [c \in DOMAIN results |->
                           IF IsValid(results[c]) THEN ScoreOne ELSE 0]
                   ELSE [c \in DOMAIN results |->
                           IF IsValid(results[c])
                             THEN ((results[c] - min_val) * ScoreOne)
                                     \div (max_val - min_val)
                             ELSE 0]

\* normalized.get(candidate_id, 0.0)
GetOrZero(normalized, c) == IF c \in DOMAIN normalized THEN normalized[c] ELSE 0


\* The two weights exchanged.
weighted_score_swapped(sem_score, pho_score, semantic_weight, phonetic_weight) ==
    phonetic_weight * sem_score + semantic_weight * pho_score

\* self.semantic_weight * sem_score + self.phonetic_weight * pho_score
weighted_score(sem_score, pho_score, semantic_weight, phonetic_weight) ==
    semantic_weight * sem_score + phonetic_weight * pho_score

\* list.sort is stable, also with reverse=True: a result goes behind the
\* results whose score is not lower.
RECURSIVE InsertByScore(_, _)
InsertByScore(sorted, res) ==
    IF sorted = <<>> THEN <<res>>
    ELSE IF Head(sorted).score >= res.score
      THEN <<Head(sorted)>> \o InsertByScore(Tail(sorted), res)
      ELSE <<res>> \o sorted

RECURSIVE SortInto(_, _)
SortInto(sorted, rest) ==
    IF rest = <<>> THEN sorted
    ELSE SortInto(InsertByScore(sorted, Head(rest)), Tail(rest))

\* A result list left in the order of the candidates.
sort_left_out(results) == results

\* A sort that puts a result in front of the results with the same score.
RECURSIVE InsertBeforeEqual(_, _)
InsertBeforeEqual(sorted, res) ==
    IF sorted = <<>> THEN <<res>>
    ELSE IF Head(sorted).score > res.score
      THEN <<Head(sorted)>> \o InsertBeforeEqual(Tail(sorted), res)
      ELSE <<res>> \o sorted

RECURSIVE SortIntoBeforeEqual(_, _)
SortIntoBeforeEqual(sorted, rest) ==
    IF rest = <<>> THEN sorted
    ELSE SortIntoBeforeEqual(InsertBeforeEqual(sorted, Head(rest)), Tail(rest))

sort_ties_reversed(results) == SortIntoBeforeEqual(<<>>, results)

\* final_results.sort(key=lambda x: x.score, reverse=True)
sort_by_score(results) == SortInto(<<>>, results)

\* The for loop of compare: one SimilarityResult per candidate, in the order
\* of the candidates.
final_results(candidates, semantic_norm, phonetic_norm, semantic_weight, phonetic_weight) ==
    [k \in 1..Len(candidates) |->
        [chunk |-> candidates[k],
         score |-> weighted_score(GetOrZero(semantic_norm, candidates[k]),
                                  GetOrZero(phonetic_norm, candidates[k]),
                                  semantic_weight, phonetic_weight)]]

\* What Semantic.compare can return: a result for every candidate, with a
\* score that the embedding model decides.
SemanticResults(candidates) ==
    [ { candidates[k] : k \in 1..Len(candidates) } -> RawScores ]

\* What Phonetic.compare can return: results for any of the candidates, with
\* any score.
PhoneticResults(candidates) ==
    UNION { [S -> RawScores] : S \in SUBSET { candidates[k] : k \in 1..Len(candidates) } }

\* Lists of distinct chunk objects, each identified by a number.
CandidateLists == { [k \in 1..n |-> k] : n \in 0..MaxCandidates }

InitCompare ==
    /\ InitController(MakeSections(1, 1))
    /\ call_args \in { [fn |-> "compare", candidates |-> c,
                        semantic_weight |-> w[1], phonetic_weight |-> w[2]] :
                         c \in CandidateLists, w \in WeightPairs }
    /\ call_result = NoResult

\* SimilarityCalculator.compare(input_str, candidates).  The result records,
\* besides what compare returns or that it raised, how many metric calls were
\* made and what the metrics and the normalisation gave.
CallCompare ==
    /\ call_args.fn = "compare"
    /\ ~call_result.returned
    /\ IF call_args.candidates = <<>>
         THEN call_result' = [returned |-> TRUE, raised |-> FALSE, value |-> <<>>,
                              metric_calls |-> 0]
         ELSE \/ \E failing \in {1, 2} :
                    call_result' = [returned |-> TRUE, raised |-> TRUE,
                                    metric_calls |-> failing]
              \/ \E semantic_results \in SemanticResults(call_args.candidates),
                    phonetic_results \in PhoneticResults(call_args.candidates) :
                    LET semantic_norm == normalize_scores(semantic_results)
                        phonetic_norm == normalize_scores(phonetic_results)
                    IN  call_result' =
                          [returned |-> TRUE, raised |-> FALSE,
                           value |-> sort_by_score(
                                        final_results(call_args.candidates,
                                                      semantic_norm, phonetic_norm,
                                                      call_args.semantic_weight,
                                                      call_args.phonetic_weight)),
                           metric_calls |-> 2,
                           semantic_results |-> semantic_results,
                           phonetic_results |-> phonetic_results,
                           semantic_norm |-> semantic_norm,
                           phonetic_norm |-> phonetic_norm]
    /\ UNCHANGED <<sections, chunks, start_section, call_args, mainVars,
                   captureVars, decVars, navVars, shutdown_flag>>

NextCompare == CallCompare

SpecCompare == InitCompare /\ [][NextCompare]_vars


\* ------------------------------------------------ normalize_text called
\* A text is a sequence of characters.  The characters of the model: letters
\* in either case, the digits of the runs "21" and "7", space, hyphen,
\* exclamation mark, the ASCII quotes, two curly quotes (U+2018, U+201C,
\* U+201D as "LSQUO", "LDQUO", "RDQUO"), an emoji, and the three characters
\* U+00E2, U+20AC, U+0153 ("a_circ", "euro", "oe") that a UTF-8 curly quote
\* turns into when it is read in a one-byte code page.
\* Largest length of the texts normalize_text is called with, besides the
\* example texts.
MaxText == 2

UpperLetters == {"A", "H"}

Letters == {"a", "b", "e", "h", "l", "n", "o", "s", "t", "v", "w", "y",
            "a_circ", "oe"}

Digits == {"1", "2", "7"}

Spaces == {" "}

AsciiQuotes == {"'", "\""}

CurlyQuotes == {"LSQUO", "LDQUO", "RDQUO"}

\* The characters the short texts are made of.
TextChars == {"A", "a", " ", "!", "-", "'", "LDQUO", "RDQUO", "a_circ", "euro", "emoji"}

\* The dict handed to str.maketrans, as written in the source file: every key
\* is a string of two or three characters (U+00E2 U+20AC and a third one).
translate_dict ==
    { << <<"a_circ", "euro", "small_tilde">>, "'" >>,
      << <<"a_circ", "euro", "trade_mark">>, "'" >>,
      << <<"a_circ", "euro", "s_caron">>, "'" >>,
      << <<"a_circ", "euro", "rsaquo">>, "'" >>,
      << <<"a_circ", "euro", "oe">>, "\"" >>,
      << <<"a_circ", "euro">>, "\"" >>,
      << <<"a_circ", "euro", "y_diaeresis">>, "\"" >> }

\* str.maketrans(dict) raises ValueError ("string keys in translate table
\* must be of length 1") when a string key is not a single character.
maketrans_raises(dict) == \E entry \in dict : Len(entry[1]) # 1

\* text.translate(table): a character that is a key is replaced by its value.
translate(text, dict) ==
    [k \in 1..Len(text) |->
        IF \E entry \in dict : entry[1] = <<text[k]>>
          THEN (CHOOSE entry \in dict : entry[1] = <<text[k]>>)[2]
          ELSE text[k]]

\* text.lower() on one character (NFC leaves the characters of the model as
\* they are).
LowerChar(c) == IF c = "A" THEN "a" ELSE IF c = "H" THEN "h" ELSE c

lower(text) == [k \in 1..Len(text) |-> LowerChar(text[k])]

\* re.sub(<emoji ranges>, "", text)
strip_emoji(text) == SelectSeq(text, LAMBDA c : c # "emoji")

\* num2words(run) for the digit runs of the model.
num2words(run) ==
    IF run = <<"2", "1">> THEN <<"t", "w", "e", "n", "t", "y", "-", "o", "n", "e">>
    ELSE IF run = <<"7">> THEN <<"s", "e", "v", "e", "n">>
    ELSE IF run = <<"1">> THEN <<"o", "n", "e">>
    ELSE <<"t", "w", "o">>

\* .replace("-", " ")
replace_hyphens(text) == [k \in 1..Len(text) |-> IF text[k] = "-" THEN " " ELSE text[k]]

\* The longest run of digits at the start of the text.
RECURSIVE DigitRun(_)
DigitRun(text) ==
    IF text = <<>> \/ text[1] \notin Digits THEN <<>>
    ELSE <<text[1]>> \o DigitRun(Tail(text))

\* re.sub(r"\d+", lambda m: num2words(m.group(0)).replace("-", " "), text)
RECURSIVE spell_digits(_)
spell_digits(text) ==
    IF text = <<>> THEN <<>>
    ELSE IF text[1] \in Digits
      THEN replace_hyphens(num2words(DigitRun(text)))
           \o spell_digits(SubSeq(text, Len(DigitRun(text)) + 1, Len(text)))
      ELSE <<text[1]>> \o spell_digits(Tail(text))

\* The characters r"[^\w\s'\"`]" does not match.
IsKept(c) == c \in Letters \cup UpperLetters \cup Digits \cup Spaces \cup AsciiQuotes

\* re.sub(r"[^\w\s'\"`]", " ", text)
punctuation_to_space(text) == [k \in 1..Len(text) |-> IF IsKept(text[k]) THEN text[k] ELSE " "]

\* re.sub(r"\s+", " ", text).strip()
RECURSIVE collapse(_, _)
collapse(text, after_space) ==
    IF text = <<>> THEN <<>>
    ELSE IF text[1] \in Spaces
      THEN (IF after_space THEN <<>> ELSE <<" ">>) \o collapse(Tail(text), TRUE)
      ELSE <<text[1]>> \o collapse(Tail(text), FALSE)

strip_end(text) ==
    IF text # <<>> /\ Last(text) \in Spaces THEN SubSeq(text, 1, Len(text) - 1) ELSE text

collapse_and_strip(text) == strip_end(collapse(text, TRUE))

\* The body of normalize_text on a text of characters: what a call gives,
\* a raised ValueError or the normalised text.
normalize_text_call(text) ==
    IF maketrans_raises(translate_dict)
      THEN [returned |-> TRUE, raised |-> TRUE]
      ELSE [returned |-> TRUE, raised |-> FALSE,
            value |-> collapse_and_strip(punctuation_to_space(spell_digits(
                         translate(strip_emoji(lower(text)), translate_dict))))]


\* The example of the normaliser's contract, curly-quoted Hello followed by
\* 21 tests, and a text with a digit, a hyphen and an emoji.
ExampleTexts ==
    { <<"LDQUO", "H", "e", "l", "l", "o", "RDQUO", " ", "2", "1", " ",
        "t", "e", "s", "t", "s">>,
      <<"7", "-", "a", "emoji", "!">> }

InitNormalize ==
    /\ InitController(MakeSections(1, 1))
    /\ call_args \in { [fn |-> "normalize_text", text |-> t] :
                         t \in ListsUpTo(TextChars, MaxText) \cup ExampleTexts }
    /\ call_result = NoResult

\* text_normalizer.normalize_text(text)
CallNormalizeText ==
    /\ call_args.fn = "normalize_text"
    /\ ~call_result.returned
    /\ call_result' = normalize_text_call(call_args.text)
    /\ UNCHANGED <<sections, chunks, start_section, call_args, mainVars,
                   captureVars, decVars, navVars, shutdown_flag>>

NextNormalize == CallNormalizeText

SpecNormalize == InitNormalize /\ [][NextNormalize]_vars


\* ------------------------------------------------- generate_chunks called
\* Largest number of sections of the lists handed to generate_chunks.
MaxListed == 3
\* Largest number of words of such a section.
MaxContent == 2
\* Largest window size handed to generate_chunks.
MaxWindow == 3

\* Contents of 0..MaxContent whitespace-separated tokens, alternately the
\* word "A" and the punctuation mark "!".
SectionContents ==
    { [j \in 1..n |-> IF j % 2 = 1 THEN "A" ELSE "!"] : n \in 0..MaxContent }

\* Section lists as the section producer builds them: section_index is the
\* position in the list.
SectionLists ==
    UNION { { [p \in 1..n |-> [content |-> f[p], section_index |-> p - 1]] :
                f \in [1..n -> SectionContents] } : n \in 0..MaxListed }

\* The body of generate_chunks: [] for fewer words than a window; otherwise
\* the list comprehension, whose first element already calls normalize_text,
\* so that an exception of that call ends generate_chunks.
generate_chunks_call(secs, w) ==
    IF Len(words_with_sources(secs)) < w
      THEN [returned |-> TRUE, raised |-> FALSE, value |-> <<>>]
      ELSE IF maketrans_raises(translate_dict)
        THEN [returned |-> TRUE, raised |-> TRUE]
        ELSE [returned |-> TRUE, raised |-> FALSE, value |-> generate_chunks(secs, w)]

InitChunks ==
    /\ InitController(MakeSections(1, 1))
    /\ call_args \in { [fn |-> "generate_chunks", sections |-> s, window_size |-> w] :
                         s \in SectionLists, w \in 1..MaxWindow }
    /\ call_result = NoResult

\* chunk_producer.generate_chunks(sections, window_size)
CallGenerateChunks ==
    /\ call_args.fn = "generate_chunks"
    /\ ~call_result.returned
    /\ call_result' = generate_chunks_call(call_args.sections, call_args.window_size)
    /\ UNCHANGED <<sections, chunks, start_section, call_args, mainVars,
                   captureVars, decVars, navVars, shutdown_flag>>

NextChunks == CallGenerateChunks

SpecChunks == InitChunks /\ [][NextChunks]_vars


\* ------------------------------- convert_to_list and convert_to_objects
\* section_producer.py is not part of the source tree; the two converters are
\* modelled from their description: one {content, section_index} mapping per
\* section, and back.
\* Largest length of the section lists that are converted.
MaxConverted == 3

\* section_index values of the sections that are converted: contiguous ones
\* and one that leaves a gap.
IndexValues == {0, 1, 5}

\* Sections with empty and non-empty content and any of the index values.
ConvertedSections ==
    { [content |-> c, section_index |-> i] : c \in { <<>>, <<"A">> }, i \in IndexValues }

\* A JSON object as the set of its (key, value) pairs.
DictValue(d, key) == (CHOOSE pair \in d : pair[1] = key)[2]

\* convert_to_list(sections): one mapping per section, in order.
convert_to_list(secs) ==
    [k \in 1..Len(secs) |->
        { <<"content", secs[k].content>>, <<"section_index", secs[k].section_index>> }]

\* A reload that orders the sections by section_index.
convert_to_objects_by_index(dicts) ==
    SortedSections({ [content |-> DictValue(dicts[k], "content"),
                      section_index |-> DictValue(dicts[k], "section_index")] :
                        k \in 1..Len(dicts) })

\* convert_to_objects(dicts): one Section per mapping, in order.
convert_to_objects(dicts) ==
    [k \in 1..Len(dicts) |->
        [content |-> DictValue(dicts[k], "content"),
         section_index |-> DictValue(dicts[k], "section_index")]]

InitConvert ==
    /\ InitController(MakeSections(1, 1))
    /\ call_args \in { [fn |-> "convert", sections |-> s] :
                         s \in ListsUpTo(ConvertedSections, MaxConverted) }
    /\ call_result = NoResult

\* convert_to_objects(convert_to_list(sections)); the result keeps the list
\* of mappings too.
CallConvert ==
    /\ call_args.fn = "convert"
    /\ ~call_result.returned
    /\ call_result' = [returned |-> TRUE,
                       as_list |-> convert_to_list(call_args.sections),
                       value |-> convert_to_objects(convert_to_list(call_args.sections))]
    /\ UNCHANGED <<sections, chunks, start_section, call_args, mainVars,
                   captureVars, decVars, navVars, shutdown_flag>>

NextConvert == CallConvert

SpecConvert == InitConvert /\ [][NextConvert]_vars


\* ------------------------------------------------ data_handler.rename called
\* The data folder is one directory of files: names are 1..MaxFiles, and a
\* file either is absent (content 0) or has a content 1..MaxFileContents.
MaxFiles == 3
MaxFileContents == 2

FileNames == 1..MaxFiles

\* The content of a name that does not exist.
Absent == 0

Folders == [FileNames -> 0..MaxFileContents]

\* rename(path, new_name) on the folder `files`: what it raises or returns,
\* and the folder afterwards.  shutil.move is only reached when the target
\* does not exist.
rename(files, path, new_name) ==
    IF files[path] = Absent
      THEN [returned |-> TRUE, raised |-> "FileNotFoundError", files |-> files]
      ELSE IF files[new_name] # Absent
        THEN [returned |-> TRUE, raised |-> "FileExistsError", files |-> files]
        ELSE [returned |-> TRUE, raised |-> "none", value |-> new_name,
              files |-> [files EXCEPT ![new_name] = files[path], ![path] = Absent]]

InitRename ==
    /\ InitController(MakeSections(1, 1))
    /\ call_args \in { [fn |-> "rename", files |-> f, path |-> p, new_name |-> n] :
                         f \in Folders, p \in FileNames, n \in FileNames }
    /\ call_result = NoResult

\* data_handler.rename(path, new_name)
CallRename ==
    /\ call_args.fn = "rename"
    /\ ~call_result.returned
    /\ call_result' = rename(call_args.files, call_args.path, call_args.new_name)
    /\ UNCHANGED <<sections, chunks, start_section, call_args, mainVars,
                   captureVars, decVars, navVars, shutdown_flag>>

NextRename == CallRename

SpecRename == InitRename /\ [][NextRename]_vars


\* ------------------------------------------------- SpeakerManager called
\* Names, ids and patterns are texts 1..MaxNames; the speakers folder holds at
\* most MaxSpeakers speakers, one folder per speaker_id.
MaxNames == 3
MaxSpeakers == 2

NameValues == 1..MaxNames

Speakers == [name : NameValues, speaker_id : NameValues]

\* The speakers folder: the stored speakers, no two in the same folder.
SpeakerStores ==
    { s \in SUBSET Speakers :
        /\ Cardinality(s) <= MaxSpeakers
        /\ \A a, b \in s : a.speaker_id = b.speaker_id => a = b }

\* The stored speakers in the order data_handler.list names their folders.
RECURSIVE SortedById(_)
SortedById(store) ==
    IF store = {} THEN <<>>
    ELSE LET first == CHOOSE s \in store : \A t \in store : s.speaker_id <= t.speaker_id
         IN  <<first>> \o SortedById(store \ {first})

\* SpeakerManager.list(): data_handler.list returns the folder names as
\* strings, and `folder.is_dir()` on the first of them raises AttributeError;
\* the loop body is only skipped when the folder is empty or missing.
list(store) ==
    IF store = {}
      THEN [raised |-> "none", value |-> <<>>]
      ELSE [raised |-> "AttributeError", value |-> <<>>]

speaker_ids(speakers) == [i \in 1..Len(speakers) |-> speakers[i].speaker_id]

\* speaker_ids.index(pattern)
index(ids, pattern) == CHOOSE i \in 1..Len(ids) : ids[i] = pattern /\ \A j \in 1..(i - 1) : ids[j] # pattern

\* The body of resolve after `speakers = self.list()` returned.
resolve_listed(speakers, speaker_pattern) ==
    LET ids == speaker_ids(speakers)
        matched_speakers == SelectSeq(speakers, LAMBDA s : s.name = speaker_pattern)
    IN  IF \E i \in 1..Len(ids) : ids[i] = speaker_pattern
          THEN [returned |-> TRUE, raised |-> "none", kind |-> "speaker",
                value |-> <<speakers[index(ids, speaker_pattern)]>>]
          ELSE IF Len(matched_speakers) = 1
            THEN [returned |-> TRUE, raised |-> "none", kind |-> "speaker",
                  value |-> matched_speakers]
            ELSE [returned |-> TRUE, raised |-> "none", kind |-> "list",
                  value |-> matched_speakers]

\* SpeakerManager.resolve(speaker_pattern)
resolve(store, speaker_pattern) ==
    IF list(store).raised # "none"
      THEN [returned |-> TRUE, raised |-> list(store).raised, kind |-> "none", value |-> <<>>]
      ELSE resolve_listed(list(store).value, speaker_pattern)

\* The body of add after `current_speakers = self.list()` returned;
\* speaker_id is what id_generator.generate_speaker_id(name) returns when it
\* is reached.
add_listed(store, current_speakers, name, speaker_id) ==
    IF \E i \in 1..Len(current_speakers) : current_speakers[i].speaker_id = name
      THEN [returned |-> TRUE, raised |-> "ValueError", generated |-> FALSE,
            written |-> FALSE, store |-> store]
      ELSE [returned |-> TRUE, raised |-> "none", generated |-> TRUE, written |-> TRUE,
            value |-> [name |-> name, speaker_id |-> speaker_id],
            store |-> { s \in store : s.speaker_id # speaker_id }
                        \cup {[name |-> name, speaker_id |-> speaker_id]}]

\* SpeakerManager.add(name, source_presentation, source_transcript)
add(store, name, speaker_id) ==
    IF list(store).raised # "none"
      THEN [returned |-> TRUE, raised |-> list(store).raised, generated |-> FALSE,
            written |-> FALSE, store |-> store]
      ELSE add_listed(store, list(store).value, name, speaker_id)

\* SpeakerManager.delete(speaker): data_handler.delete removes the speaker's
\* folder, and raises FileNotFoundError when there is none.
delete(store, speaker_id) ==
    IF \A s \in store : s.speaker_id # speaker_id
      THEN [returned |-> TRUE, raised |-> "FileNotFoundError", store |-> store]
      ELSE [returned |-> TRUE, raised |-> "none", value |-> TRUE,
            store |-> { s \in store : s.speaker_id # speaker_id }]

\* The methods called in the model.
SpeakerCalls == {"add", "resolve", "list", "delete"}

\* No call came before.
NoPrevious == [fn |-> "none"]

\* call_args is the call under way: the method, its text argument (a name, a
\* pattern or the speaker_id of the speaker to delete), the speakers folder
\* it finds and the call that came before it with its result.
InitSpeakers ==
    /\ InitController(MakeSections(1, 1))
    /\ call_args \in { [fn |-> f, store |-> s, text |-> t, previous |-> NoPrevious] :
                         f \in SpeakerCalls, s \in SpeakerStores, t \in NameValues }
    /\ call_result = NoResult

CallAdd ==
    /\ call_args.fn = "add"
    /\ ~call_result.returned
    /\ \E speaker_id \in NameValues :
          call_result' = add(call_args.store, call_args.text, speaker_id)
    /\ UNCHANGED <<sections, chunks, start_section, call_args, mainVars,
                   captureVars, decVars, navVars, shutdown_flag>>

CallResolve ==
    /\ call_args.fn = "resolve"
    /\ ~call_result.returned
    /\ call_result' = resolve(call_args.store, call_args.text)
    /\ UNCHANGED <<sections, chunks, start_section, call_args, mainVars,
                   captureVars, decVars, navVars, shutdown_flag>>

CallList ==
    /\ call_args.fn = "list"
    /\ ~call_result.returned
    /\ call_result' = [returned |-> TRUE, raised |-> list(call_args.store).raised,
                       value |-> list(call_args.store).value]
    /\ UNCHANGED <<sections, chunks, start_section, call_args, mainVars,
                   captureVars, decVars, navVars, shutdown_flag>>

CallDelete ==
    /\ call_args.fn = "delete"
    /\ ~call_result.returned
    /\ call_result' = delete(call_args.store, call_args.text)
    /\ UNCHANGED <<sections, chunks, start_section, call_args, mainVars,
                   captureVars, decVars, navVars, shutdown_flag>>

\* The next call of a method, on the folder the call before it left.
FollowingCall ==
    /\ call_args.fn \in SpeakerCalls
    /\ call_args.previous = NoPrevious
    /\ call_result.returned
    /\ \E f \in SpeakerCalls, t \in NameValues :
          call_args' = [fn |-> f, text |-> t,
                        store |-> IF call_args.fn \in {"add", "delete"}
                                    THEN call_result.store ELSE call_args.store,
                        previous |-> [fn |-> call_args.fn, text |-> call_args.text,
                                      result |-> call_result]]
    /\ call_result' = NoResult
    /\ UNCHANGED <<sections, chunks, start_section, mainVars,
                   captureVars, decVars, navVars, shutdown_flag>>

NextSpeakers == CallAdd \/ CallResolve \/ CallList \/ CallDelete \/ FollowingCall

SpecSpeakers == InitSpeakers /\ [][NextSpeakers]_vars


\* -------------------------------------------------- SettingsEditor called
\* Settings keys are 1..MaxSettingKeys, all but the last of them keys of the
\* template; values are 0..MaxSettingValues.  The file system accepts every
\* write of settings.toml.
MaxSettingKeys == 3
MaxSettingValues == 2

SettingKeys == 1..MaxSettingKeys
SettingValues == 0..MaxSettingValues

\* A key a mapping does not hold.
Missing == -1

\* self._template_defaults
TemplateKeys == 1..(MaxSettingKeys - 1)
_template_defaults == [k \in SettingKeys |-> IF k \in TemplateKeys THEN 0 ELSE Missing]

\* Mappings from some of the keys to values (a dict, a TOML document).
Mappings == [SettingKeys -> SettingValues \cup {Missing}]

\* What _save writes into settings.toml: the template with every template
\* key that _data holds set to its value.
_save(data) ==
    [k \in SettingKeys |->
        IF k \in TemplateKeys /\ data[k] # Missing THEN data[k] ELSE _template_defaults[k]]

\* SettingsEditor(): user_file is settings.toml as found (all keys missing
\* when it cannot be read).
editor_init(user_file) ==
    LET data == [k \in SettingKeys |->
                    IF user_file[k] # Missing THEN user_file[k] ELSE _template_defaults[k]]
    IN  [returned |-> TRUE, value |-> TRUE, _data |-> data, file |-> _save(data)]

\* set without the test of the key.
set_any_key(editor, key, value) ==
    LET data == [editor._data EXCEPT ![key] = value]
    IN  [returned |-> TRUE, value |-> TRUE, _data |-> data, file |-> _save(data)]

\* SettingsEditor.set(key, value)
set(editor, key, value) ==
    IF key \notin TemplateKeys
      THEN [returned |-> TRUE, value |-> FALSE, _data |-> editor._data, file |-> editor.file]
      ELSE LET data == [editor._data EXCEPT ![key] = value]
           IN  [returned |-> TRUE, value |-> TRUE, _data |-> data, file |-> _save(data)]

\* SettingsEditor.unset(key)
unset(editor, key) ==
    LET data == [editor._data EXCEPT ![key] = _template_defaults[key]]
    IN  [returned |-> TRUE, value |-> TRUE, _data |-> data, file |-> _save(data)]

\* call_result is the editor after its last call (with what the call
\* returned), call_args that call and the editor before it.
InitSettings ==
    /\ InitController(MakeSections(1, 1))
    /\ \E user_file \in Mappings :
          /\ call_args = [fn |-> "__init__", key |-> Missing, value |-> Missing,
                          before |-> [_data |-> user_file, file |-> user_file]]
          /\ call_result = editor_init(user_file)

CallSet ==
    /\ call_args.fn \in {"__init__", "set", "unset"}
    /\ \E key \in SettingKeys, value \in SettingValues :
          /\ call_args' = [fn |-> "set", key |-> key, value |-> value,
                           before |-> [_data |-> call_result._data, file |-> call_result.file]]
          /\ call_result' = set(call_result, key, value)
    /\ UNCHANGED <<sections, chunks, start_section, mainVars,
                   captureVars, decVars, navVars, shutdown_flag>>

CallUnset ==
    /\ call_args.fn \in {"__init__", "set", "unset"}
    /\ \E key \in SettingKeys :
          /\ call_args' = [fn |-> "unset", key |-> key, value |-> Missing,
                           before |-> [_data |-> call_result._data, file |-> call_result.file]]
          /\ call_result' = unset(call_result, key)
    /\ UNCHANGED <<sections, chunks, start_section, mainVars,
                   captureVars, decVars, navVars, shutdown_flag>>

NextSettings == CallSet \/ CallUnset

SpecSettings == InitSettings /\ [][NextSettings]_vars


\* ------------------------------ a session with the similarity scores in it
\* A session over MaxScoredSections sections of one word each, with at most
\* MaxScoredFrames frames of audio, in which the navigator's call of compare
\* is computed from what the two metrics return.
MaxScoredSections == 3
MaxScoredFrames == 1

\* SimilarityCalculator(): semantic_weight = 0.4, phonetic_weight = 0.6
DefaultSemanticWeight == 4
DefaultPhoneticWeight == 6

\* The raw scores of the session's metrics: one below the floor of 0.5 and
\* one above it.
SessionScores == {30, 70}

\* What Semantic.compare returns in the session: a result for every candidate.
SessionSemanticResults(candidates) ==
    [ { candidates[k] : k \in 1..Len(candidates) } -> SessionScores ]

\* What Phonetic.compare returns in the session: results for any of the
\* candidates.
SessionPhoneticResults(candidates) ==
    UNION { [S -> SessionScores] : S \in SUBSET { candidates[k] : k \in 1..Len(candidates) } }

InitScored ==
    /\ InitController(MakeSections(MaxScoredSections, 1))
    /\ call_args = NoCall
    /\ call_result = NoResult

\* similarity_results = self.similarity_calculator.compare(input_text,
\* candidate_chunks); best_chunk = similarity_results[0].chunk;
\* target_section = best_chunk.source_sections[-1].  call_args and call_result
\* keep this call of compare.
NavCompareScored ==
    /\ pc_nav = "compare"
    /\ compared' = TRUE
    /\ LET candidates == get_candidate_chunks(current_section, chunks)
       IN  /\ call_args' = [fn |-> "compare", candidates |-> candidates,
                            semantic_weight |-> DefaultSemanticWeight,
                            phonetic_weight |-> DefaultPhoneticWeight]
           /\ \/ /\ pc_nav' = "failed"
                 /\ navigator_working' = FlagAfterStep
                 /\ call_result' = [returned |-> TRUE, raised |-> TRUE]
                 /\ UNCHANGED <<target_section, presses_done>>
              \/ \E semantic_results \in SessionSemanticResults(candidates),
                    phonetic_results \in SessionPhoneticResults(candidates) :
                    LET similarity_results ==
                            sort_by_score(
                               final_results(candidates,
                                             normalize_scores(semantic_results),
                                             normalize_scores(phonetic_results),
                                             DefaultSemanticWeight,
                                             DefaultPhoneticWeight))
                        best_chunk == similarity_results[1].chunk
                    IN  /\ call_result' = [returned |-> TRUE, raised |-> FALSE,
                                           value |-> similarity_results,
                                           semantic_results |-> semantic_results,
                                           phonetic_results |-> phonetic_results]
                        /\ target_section' = TargetOf(best_chunk)
                        /\ presses_done' = 0
                        /\ pc_nav' = AfterCompare(TargetOf(best_chunk).section_index
                                                   - current_section.section_index)
                        /\ UNCHANGED navigator_working
    /\ UNCHANGED <<sections, chunks, start_section, mainVars, captureVars,
                   decVars, current_section, previous_recent_words, current_words,
                   step_keys, shutdown_flag>>

NextScored ==
    \/ StartAudioThread
    \/ StartNavigator
    \/ OpenStream
    \/ MainLoop
    \/ KeyboardInterrupt
    \/ StreamAbort
    \/ SetShutdown
    \/ JoinAudioThread
    \/ JoinNavigator
    \/ Capture(MaxScoredFrames)
    \/ DecodeLoop
    \/ DecodeQueue
    \/ DecodePop
    \/ DecodeClear
    \/ DecodeExtend
    \/ NavLoop
    \/ NavSnapshot
    \/ NavCandidates
    \/ NavCompareScored
    \/ NavPress
    \/ NavRelease
    \/ NavAssign

SpecScored == InitScored /\ [][NextScored]_vars


\* ------------------------------------------- SpeakerManager.process called
\* process for one speaker, called again and again on the speaker's folder.
\* A file is its content, 1..MaxFileContents, or Absent; the sources are a
\* presentation and a transcript outside the folder, under their own names
\* or under the names of the local copies.
LocalNames == {"presentation.pdf", "transcript.pdf", "sections.json"}

PresentationNames == {"talk.pdf", "presentation.pdf"}

TranscriptNames == {"notes.pdf", "transcript.pdf"}

SpeakerFolderNames == LocalNames \cup PresentationNames \cup TranscriptNames

\* A source file: its name and its content (Absent when it does not exist).
SourceFiles(names) == [name : names, content : 0..MaxFileContents]

\* data_handler.copy(source, speaker_path) for a source that is a file:
\* shutil.copy2 writes speaker_path / source.name, over what is there.
copy(files, source) == [files EXCEPT ![source.name] = source.content]

\* `if source.exists(): copy, rename ... elif local.exists(): ... else: raise`
\* for one of the two files.
fetch(files, source, local_name) ==
    IF source.content # Absent
      THEN LET renamed == rename(copy(files, source), source.name, local_name)
           IN  [raised |-> renamed.raised, files |-> renamed.files, from |-> "SOURCE"]
      ELSE IF files[local_name] # Absent
        THEN [raised |-> "none", files |-> files, from |-> "LOCAL"]
        ELSE [raised |-> "FileNotFoundError", files |-> files, from |-> "none"]

\* process([speaker], ...): `generated` is the sections generate_sections
\* returns, Absent when it raises.
process(files, source_presentation, source_transcript, generated) ==
    LET presentation == fetch(files, source_presentation, "presentation.pdf")
        transcript   == fetch(presentation.files, source_transcript, "transcript.pdf")
    IN  IF ~ ( \/ source_presentation.content # Absent /\ source_transcript.content # Absent
               \/ files["presentation.pdf"] # Absent /\ files["transcript.pdf"] # Absent )
          THEN [returned |-> TRUE, raised |-> "FileNotFoundError", files |-> files]
        ELSE IF presentation.raised # "none"
          THEN [returned |-> TRUE, raised |-> presentation.raised,
                files |-> presentation.files]
        ELSE IF transcript.raised # "none"
          THEN [returned |-> TRUE, raised |-> transcript.raised,
                files |-> transcript.files]
        ELSE IF generated = Absent
          THEN [returned |-> TRUE, raised |-> "Exception", files |-> transcript.files]
        ELSE [returned |-> TRUE, raised |-> "none",
              files |-> [transcript.files EXCEPT !["sections.json"] = generated],
              presentation_from |-> presentation.from,
              transcript_from |-> transcript.from]

\* The folder of a speaker that has just been added (speaker.json apart).
InitProcess ==
    /\ InitController(MakeSections(1, 1))
    /\ call_args = [fn |-> "add"]
    /\ call_result = [returned |-> TRUE, raised |-> "none",
                      files |-> [n \in SpeakerFolderNames |-> Absent]]

\* call_result is what the last call of process gave and the folder after
\* it, call_args that call and the folder before it.
CallProcess ==
    /\ call_args.fn \in {"add", "process"}
    /\ \E source_presentation \in SourceFiles(PresentationNames),
          source_transcript \in SourceFiles(TranscriptNames),
          generated \in 0..MaxFileContents :
          /\ call_args' = [fn |-> "process", before |-> call_result.files,
                           source_presentation |-> source_presentation,
                           source_transcript |-> source_transcript,
                           generated |-> generated]
          /\ call_result' = process(call_result.files, source_presentation,
                                    source_transcript, generated)
    /\ UNCHANGED <<sections, chunks, start_section, mainVars,
                   captureVars, decVars, navVars, shutdown_flag>>

NextProcess == CallProcess

SpecProcess == InitProcess /\ [][NextProcess]_vars


\* ================================================================== claims
\* The navigator is inside a navigation step (lines 94-145).
InStep == pc_nav \in {"candidates", "compare", "press", "release", "assign"}

\* The section indices a chunk touches.
IndicesOf(chunk) ==
    { chunk.source_sections[k].section_index : k \in 1..Len(chunk.source_sections) }

SectionsOfScript == { sections[p] : p \in 1..Len(sections) }

IsPrefix(s, t) == Len(s) <= Len(t) /\ SubSeq(t, 1, Len(s)) = s

\* |distance| press-then-release pairs of Right (distance > 0) or Left.
KeyPairs(distance) ==
    [e \in 1..(2 * Abs(distance)) |->
        << IF distance > 0 THEN "right" ELSE "left",
           IF e % 2 = 1 THEN "press" ELSE "release" >>]

\* C1: a navigation step with delta # 0 emits exactly |delta| press-then-
\* release pairs, all of Right when delta > 0 and all of Left when delta < 0,
\* and current_section is set to the target only after the last key event.
C1_KeysThenAssign ==
    [][ /\ step_keys' # step_keys /\ step_keys' # <<>>
           => /\ current_section' = current_section
              /\ IsPrefix(step_keys', KeyPairs(navigation_distance))
        /\ current_section' # current_section
           => /\ pc_nav = "assign"
              /\ navigation_distance # 0
              /\ step_keys = KeyPairs(navigation_distance)
              /\ step_keys' = step_keys
              /\ current_section' = target_section
        /\ pc_nav = "assign" /\ pc_nav' # "assign"
           => /\ step_keys = KeyPairs(navigation_distance)
              /\ current_section' = target_section
      ]_vars

\* A step from section 0 to section 2 has completed with two Right pairs.
C1_Witness ==
    /\ pc_nav = "loop"
    /\ compared
    /\ current_section = target_section
    /\ current_section.section_index = 2
    /\ step_keys = << <<"right", "press">>, <<"right", "release">>,
                      <<"right", "press">>, <<"right", "release">> >>

\* C2: current_section is always an element of the sections list, and once it
\* has left start_section it is a source section of a chunk generated from
\* sections.
C2_CurrentInSections ==
    /\ current_section \in SectionsOfScript
    /\ current_section # start_section
       => \E c \in 1..Len(chunks) :
             \E k \in 1..Len(chunks[c].source_sections) :
                current_section = chunks[c].source_sections[k]

C2_Witness ==
    /\ current_section # start_section
    /\ pc_nav = "loop"
    /\ compared

\* C3: navigator_working is set exactly while the navigator is inside a
\* navigation step: it is clear when a step is entered, set on entry and clear
\* after every exit (completion, skip, exception).
C3_FlagIffInStep == navigator_working <=> InStep

\* A step has ended by an exception and the flag is clear.
C3_Witness ==
    /\ pc_nav = "failed"
    /\ compared
    /\ ~navigator_working

\* A worker thread has ended by an exception.
WorkerFailed == pc_nav = "failed" \/ pc_dec = "failed"

\* C4: after a fatal error in a worker the session ends in Stopped:
\* shutdown_flag becomes set, both workers and the main loop stop and the
\* audio stream is closed.
C4_FatalErrorStops ==
    WorkerFailed ~> ( /\ shutdown_flag
                      /\ pc_nav \in {"done", "failed"}
                      /\ pc_dec \in {"done", "failed"}
                      /\ pc_main \notin {"open", "sleep"}
                      /\ ~stream_open )

\* The filter as the claim states it, with the window [i-2, i+ahead].
InWindowRule(i, chunk, ahead) ==
    /\ IndicesOf(chunk) \subseteq (i - 2)..(i + ahead)
    /\ ~ ( Len(chunk.source_sections) = 1
           /\ IndicesOf(chunk) \cap {i - 2, i + ahead} # {} )

\* The chunks of a list.
Members(l) == { l[k] : k \in 1..Len(l) }

ReturnedRule(ahead) ==
    (call_args.fn = "get_candidate_chunks" /\ call_result.returned)
    => \A chunk \in Members(call_args.all_chunks) :
          chunk \in Members(call_result.value)
          <=> InWindowRule(call_args.current_section.section_index, chunk, ahead)

\* C5 as stated: a chunk is returned iff all its source sections have index in
\* [i-2, i+2] and it is not a single-section chunk at i-2 or i+2.
C5_Original == ReturnedRule(2)

\* C5 amended: a chunk is returned iff all its source sections have index in
\* [i-2, i+3] and it is not a single-section chunk at i-2 or i+3.
C5_WindowRule == ReturnedRule(3)

\* With i = 1 the chunk over sections {3,4} is returned and the single-section
\* chunk at 4 is not.
C5_Witness ==
    /\ call_args.fn = "get_candidate_chunks"
    /\ call_result.returned
    /\ call_args.current_section.section_index = 1
    /\ Len(call_args.all_chunks) = 2
    /\ IndicesOf(call_args.all_chunks[1]) = {3, 4}
    /\ IndicesOf(call_args.all_chunks[2]) = {4}
    /\ call_result.value = <<call_args.all_chunks[1]>>

\* The target of the running step is known.
TargetKnown == pc_nav \in {"press", "release", "assign"}

StepWithin(back, ahead) ==
    TargetKnown
    => /\ navigation_distance \in (0 - back)..ahead
       /\ Len(step_keys) <= 2 * ahead

C7_EmptyCandidatesSkip ==
    [][ ( /\ pc_nav = "candidates"
          /\ get_candidate_chunks(current_section, chunks) = <<>>
          /\ pc_nav' # pc_nav )
        => /\ pc_nav' = "loop"
           /\ ~navigator_working'
           /\ ~compared'
           /\ step_keys' = <<>>
           /\ current_section' = current_section
           /\ previous_recent_words' = previous_recent_words
      ]_vars

\* A due snapshot was taken and the iteration ended without a comparison and
\* without an error: the step was skipped.
C7_Witness ==
    /\ pc_nav = "loop"
    /\ Len(current_words) = WindowSize
    /\ current_words # previous_recent_words
    /\ ~compared
    /\ ~navigator_working

\* C8: a step whose target has the index of current_section emits no
\* keystroke, leaves the index of current_section unchanged and sets
\* previous_recent_words to the snapshot it processed, which therefore does not
\* start another step.
C8_ZeroDelta ==
    [][ ( /\ pc_nav = "assign"
          /\ pc_nav' # pc_nav
          /\ target_section.section_index = current_section.section_index )
        => /\ step_keys = <<>>
           /\ step_keys' = <<>>
           /\ current_section'.section_index = current_section.section_index
           /\ previous_recent_words' = current_words
           /\ Len(current_words) = WindowSize
           /\ ~StepDue(current_words)'
      ]_vars

C8_Witness ==
    /\ pc_nav = "loop"
    /\ compared
    /\ step_keys = <<>>
    /\ current_section = target_section
    /\ previous_recent_words = current_words
    /\ Len(current_words) = WindowSize

\* C9: the audio queue never holds more than 5 frames; a frame delivered to a
\* queue of 5 drops the oldest frame and is enqueued, and the callback is
\* never held up by a full queue.
C9_DropOldest ==
    /\ [](Len(audio_queue) <= 5)
    /\ []((stream_open /\ ~stream_failed /\ captured < MaxAudioFrames)
          => ENABLED Capture(MaxAudioFrames))
    /\ [][ captured' # captured
           => /\ captured' = captured + 1
              /\ audio_queue' = IF Len(audio_queue) = 5
                                  THEN Tail(audio_queue) \o <<captured'>>
                                  ELSE audio_queue \o <<captured'>>
         ]_vars

\* The sixth frame arrived while the queue held frames 1..5.
C9_Witness == audio_queue = <<2, 3, 4, 5, 6>>

\* C10: the frames fed to the recognizer are a subsequence of the captured
\* frames in capture order, without repetition, and the decoder never pops
\* from an empty queue.
C10_FedInCaptureOrder ==
    /\ \A k \in 1..Len(fed) : fed[k] \in 1..captured
    /\ \A k \in 1..(Len(fed) - 1) : fed[k] < fed[k + 1]
    /\ \A k \in 1..Len(fed) : \A q \in 1..Len(audio_queue) : fed[k] < audio_queue[q]
    /\ pc_dec = "pop" => audio_queue # <<>>

\* Frame 1 was dropped, frames 2 and 3 were decoded in that order.
C10_Witness ==
    /\ Len(fed) >= 2
    /\ fed[1] = 2
    /\ fed[2] = 3


\* C11: once shutdown_flag is set, the decode loop and the navigator loop
\* both come to an end, under a scheduler that runs every thread that can
\* take a step.
WorkersEnded ==
    /\ pc_dec \in {"done", "failed"}
    /\ pc_nav \in {"done", "failed"}

C11_WorkersTerminate == shutdown_flag ~> WorkersEnded

\* Both loops have left through their loop condition after the flag was set.
C11_Witness ==
    /\ shutdown_flag
    /\ pc_dec = "done"
    /\ pc_nav = "done"

\* control() has set shutdown_flag and is past both joins.
WorkersJoined ==
    /\ shutdown_flag
    /\ pc_main = "done"

\* C12: on every exit path of control() the audio input stream is closed only
\* after shutdown_flag has been set and the decode and navigator threads have
\* been joined.
C12_StreamClosedLast ==
    [][ (stream_open /\ ~stream_open') => WorkersJoined ]_vars

\* The session has stopped with an error: the flag is set, both workers have
\* ended, the stream is closed and control() has raised to its caller.
StoppedWithError ==
    /\ shutdown_flag
    /\ WorkersEnded
    /\ ~stream_open
    /\ pc_main = "done"
    /\ control_error

\* C13: when opening the audio input stream fails, or the stream fails while
\* it runs, the session stops with an error: shutdown_flag is set, both
\* workers terminate, the device is not left held and the error reaches the
\* caller of control().
C13_CaptureFailureStops == (control_error \/ stream_failed) ~> StoppedWithError

\* Stopped: shutdown_flag is set, a fatal error has occurred, or control() has
\* left its loop on the way to setting the flag.
IsStopped ==
    \/ shutdown_flag
    \/ WorkerFailed
    \/ control_error
    \/ pc_main \in {"finally", "join_audio", "join_nav", "done"}

\* Initializing: the audio stream has not been opened yet.
IsInitializing == pc_main \in {"start_audio", "start_nav", "open"}

\* The coarse state of the controller (spec 4.5).
CoarseState ==
    IF IsStopped THEN "Stopped"
    ELSE IF IsInitializing THEN "Initializing"
    ELSE IF InStep THEN "Navigating"
    ELSE "Listening"

CoarseTransitions ==
    { <<"Initializing", "Listening">>, <<"Listening", "Navigating">>,
      <<"Navigating", "Listening">> }
    \cup { <<st, "Stopped">> : st \in {"Initializing", "Listening", "Navigating"} }
    \cup { <<st, st>> : st \in {"Initializing", "Listening", "Navigating", "Stopped"} }

CompareReturned ==
    /\ call_args.fn = "compare"
    /\ call_result.returned
    /\ ~call_result.raised

MetricRuns ==
    { <<call_result.semantic_results, call_result.semantic_norm>>,
      <<call_result.phonetic_results, call_result.phonetic_norm>> }

\* The candidates whose raw score reaches 0.5.
Survivors(raw) == { c \in DOMAIN raw : raw[c] >= ScoreFloor }

\* C16: per metric, a raw score below 0.5 is normalised to 0; when no raw
\* score reaches 0.5 every result is 0; otherwise a surviving score s becomes
\* (s - min) / (max - min) over the survivors, and 1.0 when all survivors are
\* equal; every normalised value lies in [0, 1].
C16_MinMaxOverSurvivors ==
    (CompareReturned /\ call_args.candidates # <<>>) =>
        \A run \in MetricRuns :
            LET raw == run[1]
                norm == run[2]
                lo == SetMin({ raw[c] : c \in Survivors(raw) })
                hi == SetMax({ raw[c] : c \in Survivors(raw) })
            IN  /\ DOMAIN norm = DOMAIN raw
                /\ \A c \in DOMAIN raw : raw[c] < ScoreFloor => norm[c] = 0
                /\ Survivors(raw) = {} => \A c \in DOMAIN raw : norm[c] = 0
                /\ \A c \in Survivors(raw) :
                      IF lo = hi THEN norm[c] = ScoreOne
                      ELSE norm[c] * (hi - lo) = (raw[c] - lo) * ScoreOne
                /\ \A c \in DOMAIN raw : norm[c] >= 0 /\ norm[c] <= ScoreOne

\* The semantic metric gave 0.9, 0.5 and 0.7, normalised to 1.0, 0.0 and 0.5,
\* and the phonetic metric gave one candidate a score below the floor.
C16_Witness ==
    /\ CompareReturned
    /\ Len(call_args.candidates) = 3
    /\ call_result.semantic_results = (1 :> 90 @@ 2 :> 50 @@ 3 :> 70)
    /\ call_result.semantic_norm = (1 :> 100 @@ 2 :> 0 @@ 3 :> 50)
    /\ \E c \in DOMAIN call_result.phonetic_results :
          /\ call_result.phonetic_results[c] = 30
          /\ call_result.phonetic_norm[c] = 0

\* The candidate has the largest surviving raw score of the metric.
TopSurvivor(raw, c) ==
    /\ c \in Survivors(raw)
    /\ \A d \in Survivors(raw) : raw[d] <= raw[c]

\* The normalised score of a candidate, 0 when the metric has no result for it.
NormOf(norm, c) == IF c \in DOMAIN norm THEN norm[c] ELSE 0

GenerateChunksCalled ==
    /\ call_args.fn = "generate_chunks"
    /\ call_result.returned

\* The whitespace-separated words of all section contents, in order.
RECURSIVE FlatWords(_)
FlatWords(secs) ==
    IF secs = <<>> THEN <<>> ELSE secs[1].content \o FlatWords(Tail(secs))

\* The position in the section list of the section that owns the n-th word of
\* the flattened script.
RECURSIVE OwnerOfWord(_, _)
OwnerOfWord(secs, n) ==
    IF n <= Len(secs[1].content) THEN 1
    ELSE 1 + OwnerOfWord(Tail(secs), n - Len(secs[1].content))

\* The words a text is left with once punctuation is gone and case is folded.
PlainWords(text) ==
    [k \in 1..Len(SelectSeq(text, LAMBDA tok : tok # "!")) |->
        IF SelectSeq(text, LAMBDA tok : tok # "!")[k] = "A" THEN "a"
        ELSE SelectSeq(text, LAMBDA tok : tok # "!")[k]]

\* C18: generate_chunks(S, W) returns exactly max(0, total_words(S) - W + 1)
\* chunks, the empty list when S has fewer than W words, and the k-th chunk
\* covers words k .. k+W-1 of the flattened script.
C18_ChunkCount ==
    GenerateChunksCalled =>
        LET flat == FlatWords(call_args.sections)
            w == call_args.window_size
            expected == IF Len(flat) - w + 1 > 0 THEN Len(flat) - w + 1 ELSE 0
        IN  /\ ~call_result.raised
            /\ Len(call_result.value) = expected
            /\ \A k \in 1..expected :
                  call_result.value[k].partial_content
                     = PlainWords(SubSeq(flat, k, k + w - 1))

\* C19: every chunk generate_chunks produces has a non-empty source_sections
\* list that is exactly the set of the sections owning the W words of its
\* window, without duplicates and strictly increasing in section_index; a
\* section whose index lies strictly between two source sections of a chunk
\* has no word.
C19_SourceSections ==
    GenerateChunksCalled =>
        LET secs == call_args.sections
            w == call_args.window_size
        IN  /\ ~call_result.raised
            /\ \A k \in 1..Len(call_result.value) :
                  LET src == call_result.value[k].source_sections
                  IN  /\ src # <<>>
                      /\ { src[j] : j \in 1..Len(src) }
                            = { secs[OwnerOfWord(secs, n)] : n \in k..(k + w - 1) }
                      /\ \A j \in 1..(Len(src) - 1) :
                            src[j].section_index < src[j + 1].section_index
                      /\ \A p \in 1..Len(secs) :
                            ( /\ src[1].section_index < secs[p].section_index
                              /\ secs[p].section_index < src[Len(src)].section_index
                              /\ \A j \in 1..Len(src) : src[j] # secs[p] )
                            => secs[p].content = <<>>

\* A call of normalize_text has ended.
NormalizeCalled ==
    /\ call_args.fn = "normalize_text"
    /\ call_result.returned

\* C20: normalize_text returns, for every text, a text without curly or
\* mojibake quotation marks (they have become ASCII quotes) and without
\* digits and hyphens (digit runs have become their cardinal words): the
\* curly-quoted Hello followed by 21 tests becomes "hello" twenty one tests.
C20_QuotesAndDigits ==
    NormalizeCalled =>
        /\ ~call_result.raised
        /\ \A k \in 1..Len(call_result.value) :
              call_result.value[k] \notin CurlyQuotes \cup Digits \cup {"euro", "-"}
        /\ call_args.text = <<"LDQUO", "H", "e", "l", "l", "o", "RDQUO", " ",
                              "2", "1", " ", "t", "e", "s", "t", "s">>
              => call_result.value
                    = <<"\"", "h", "e", "l", "l", "o", "\"", " ",
                        "t", "w", "e", "n", "t", "y", " ", "o", "n", "e", " ",
                        "t", "e", "s", "t", "s">>

\* C21: normalize_text is idempotent, and its output has no digit, no two
\* consecutive spaces and no leading or trailing whitespace (the characters
\* of the model include no control character).
C21_Idempotent ==
    NormalizeCalled =>
        /\ ~call_result.raised
        /\ normalize_text_call(call_result.value) = call_result
        /\ \A k \in 1..Len(call_result.value) : call_result.value[k] \notin Digits
        /\ \A k \in 1..(Len(call_result.value) - 1) :
              ~(call_result.value[k] \in Spaces /\ call_result.value[k + 1] \in Spaces)
        /\ call_result.value # <<>>
              => /\ call_result.value[1] \notin Spaces
                 /\ Last(call_result.value) \notin Spaces

RECURSIVE IsSublist(_, _)
IsSublist(sub, l) ==
    IF sub = <<>> THEN TRUE
    ELSE IF l = <<>> THEN FALSE
    ELSE IF Head(sub) = Head(l) THEN IsSublist(Tail(sub), Tail(l))
    ELSE IsSublist(sub, Tail(l))

\* C23: every chunk get_candidate_chunks returns for the current index i has
\* all its source-section indices in [i-2, i+3], no returned single-section
\* chunk sits at i-2 or i+3, and the returned list is an order-preserving
\* sublist of all_chunks; with i = 0 a chunk over section 0 and a chunk over
\* sections 0 and 1 are both returned, in that order.
C23_ReturnedWithinWindow ==
    (call_args.fn = "get_candidate_chunks" /\ call_result.returned) =>
        LET i == call_args.current_section.section_index
        IN  /\ \A k \in 1..Len(call_result.value) :
                  LET src == call_result.value[k].source_sections
                  IN  /\ \A j \in 1..Len(src) :
                            /\ src[j].section_index >= i - 2
                            /\ src[j].section_index <= i + 3
                      /\ Len(src) = 1 => src[1].section_index \notin {i - 2, i + 3}
            /\ IsSublist(call_result.value, call_args.all_chunks)
            /\ ( /\ i = 0
                 /\ Len(call_args.all_chunks) = 2
                 /\ IndicesOf(call_args.all_chunks[1]) = {0}
                 /\ IndicesOf(call_args.all_chunks[2]) = {0, 1} )
               => call_result.value = call_args.all_chunks

\* At the first section the chunk over section 0 and the chunk over sections
\* 0 and 1 were returned in that order.
C23_Witness ==
    /\ call_args.fn = "get_candidate_chunks"
    /\ call_result.returned
    /\ call_args.current_section.section_index = 0
    /\ Len(call_args.all_chunks) = 2
    /\ IndicesOf(call_args.all_chunks[1]) = {0}
    /\ IndicesOf(call_args.all_chunks[2]) = {0, 1}
    /\ call_result.value = call_args.all_chunks

\* C24: rename(path, new_name) onto a name that already exists in the same
\* directory succeeds and overwrites it: afterwards the original path no
\* longer exists, the target holds the original's content and the returned
\* path is the target.
C24_RenameOverwrites ==
    ( /\ call_args.fn = "rename"
      /\ call_result.returned
      /\ call_args.files[call_args.path] # Absent
      /\ call_args.files[call_args.new_name] # Absent
      /\ call_args.new_name # call_args.path )
    => /\ call_result.raised = "none"
       /\ call_result.files[call_args.path] = Absent
       /\ call_result.files[call_args.new_name] = call_args.files[call_args.path]
       /\ call_result.value = call_args.new_name

\* The ids of the stored speakers.
StoredIds(store) == { s.speaker_id : s \in store }

\* The stored speakers whose name is the pattern.
NamedAs(store, pattern) == { s \in store : s.name = pattern }

\* C25: resolve(pattern) raises ValueError listing the ids of the matches when
\* the pattern is no speaker_id but the name of two or more speakers, and
\* returns the speaker whose speaker_id is the pattern whenever there is one,
\* even if another speaker's name equals the pattern.
C25_ResolveAmbiguousOrById ==
    (call_args.fn = "resolve" /\ call_result.returned)
    => LET store   == call_args.store
           pattern == call_args.text
       IN  /\ (pattern \notin StoredIds(store) /\ Cardinality(NamedAs(store, pattern)) >= 2)
                 => call_result.raised = "ValueError"
           /\ pattern \in StoredIds(store)
                 => /\ call_result.raised = "none"
                    /\ call_result.kind = "speaker"
                    /\ call_result.value[1].speaker_id = pattern

\* C26: add(name, ...) with a name that is the speaker_id of a stored speaker
\* raises ValueError, generates no id, writes no speaker.json and leaves the
\* stored speakers as they were.
C26_AddRejectsExistingId ==
    ( /\ call_args.fn = "add"
      /\ call_result.returned
      /\ call_args.text \in StoredIds(call_args.store) )
    => /\ call_result.raised = "ValueError"
       /\ ~call_result.generated
       /\ ~call_result.written
       /\ call_result.store = call_args.store

\* C27: set(key, value) with a key that is not in the template returns False
\* and leaves the in-memory settings and the settings file as they were; and
\* unset(key) on a template key, after whatever calls came before, leaves the
\* key at its template default in memory and in the file.
C27_UnknownKeyRejectedUnsetRestores ==
    /\ (call_args.fn = "set" /\ call_args.key \notin TemplateKeys)
          => /\ call_result.value = FALSE
             /\ call_result._data = call_args.before._data
             /\ call_result.file = call_args.before.file
    /\ (call_args.fn = "unset" /\ call_args.key \in TemplateKeys)
          => /\ call_result._data[call_args.key] = _template_defaults[call_args.key]
             /\ call_result.file[call_args.key] = _template_defaults[call_args.key]

\* An unset of a template key that held another value than its default, in
\* an editor that holds a key from outside the template.
C27_Witness ==
    /\ call_args.fn = "unset"
    /\ call_args.key \in TemplateKeys
    /\ call_args.before._data[call_args.key] # _template_defaults[call_args.key]
    /\ call_args.before.file[call_args.key] # _template_defaults[call_args.key]
    /\ \E k \in SettingKeys \ TemplateKeys : call_result._data[k] # Missing

\* C28: the navigator enters a navigation step only when its snapshot of
\* recent_words has exactly window_size words, differs from
\* previous_recent_words and navigator_working is false; otherwise the
\* iteration compares nothing, emits no key and changes no state of the
\* controller.
C28_StepEntry ==
    [][ (pc_nav = "snapshot" /\ pc_nav' # "snapshot")
        => /\ current_words' = recent_words
           /\ IF /\ Len(recent_words) = WindowSize
                 /\ recent_words # previous_recent_words
                 /\ ~navigator_working
                THEN pc_nav' = "candidates"
                ELSE /\ pc_nav' = "loop"
                     /\ ~compared'
                     /\ step_keys' = <<>>
                     /\ UNCHANGED <<current_section, previous_recent_words,
                                    navigator_working, recent_words>> ]_vars

\* A second step is entered: on a snapshot of window_size words that differs
\* from the one the step before it processed.
C28_Witness ==
    /\ pc_nav = "candidates"
    /\ Len(current_words) = WindowSize
    /\ previous_recent_words # <<>>
    /\ current_words # previous_recent_words

\* C29 (as stated): while the stream has not been opened, neither worker
\* thread has been started.
C29_WorkersStartAfterOpen ==
    IsInitializing => (pc_dec = "unstarted" /\ pc_nav = "unstarted")

\* C29: both workers are started before the stream is opened, so they run
\* while the controller is Initializing; until the stream is open no frame is
\* captured, so the decode thread feeds and publishes nothing and the
\* navigator enters no step.
C29_WorkersIdleUntilOpen ==
    /\ pc_main = "open" => (pc_dec # "unstarted" /\ pc_nav # "unstarted")
    /\ IsInitializing
          => /\ captured = 0
             /\ audio_queue = <<>>
             /\ fed = <<>>
             /\ recent_words = <<>>
             /\ pc_dec \in {"unstarted", "loop", "queue", "done"}
             /\ pc_nav \in {"unstarted", "loop", "snapshot", "done"}
             /\ current_section = start_section

\* Both workers are inside their loops while the stream is not yet open.
C29_Witness ==
    /\ pc_main = "open"
    /\ ~stream_open
    /\ pc_dec = "queue"
    /\ pc_nav = "snapshot"

\* C30: recent_words is replaced only by the decode thread's publication of
\* the last window_size words of a normalised non-empty text, which are not
\* empty and differ from its contents; right after the publication it holds
\* exactly those words; and it never holds more than window_size words.
C30_Publication ==
    /\ [](Len(recent_words) <= WindowSize)
    /\ [](pc_dec \in {"clear", "extend"}
            => /\ words # <<>>
               /\ \E text \in RecognizerTexts \ {<<>>} :
                     words = LastN(normalize_text(text), WindowSize)
               /\ pc_dec = "clear" => words # recent_words)
    /\ [][ /\ recent_words' # recent_words => pc_dec \in {"clear", "extend"}
           /\ (pc_dec = "extend" /\ pc_dec' # "extend") => recent_words' = words ]_vars

\* window_size words have just been published over other contents.
C30_Witness ==
    /\ pc_dec = "loop"
    /\ Len(words) = WindowSize
    /\ recent_words = words
    /\ Len(fed) >= 2

\* The navigator thread takes a step of its own.
NavigatorMoves == pc_nav \notin {"unstarted", "failed", "done"} /\ pc_nav' # pc_nav

\* The decode thread takes a step of its own.
DecoderMoves == pc_dec \notin {"unstarted", "failed", "done"} /\ pc_dec' # pc_dec

\* C31: only the navigator thread changes current_section,
\* previous_recent_words and navigator_working; current_section is assigned
\* once at the end of a completed step and never in a skipped one; the capture
\* callback changes only the audio queue, and the decode thread only the audio
\* queue (by popping) and recent_words.
C31_SingleWriter ==
    [][ /\ ( \/ current_section' # current_section
             \/ previous_recent_words' # previous_recent_words
             \/ navigator_working' # navigator_working ) => NavigatorMoves
        /\ current_section' # current_section => (pc_nav = "assign" /\ pc_nav' = "loop")
        /\ (pc_nav = "assign" /\ pc_nav' # "assign")
              => (pc_nav' = "loop" /\ current_section' = target_section)
        /\ (pc_nav \in {"snapshot", "candidates"} /\ pc_nav' = "loop")
              => UNCHANGED <<current_section, previous_recent_words>>
        /\ captured' # captured
              => UNCHANGED <<constVars, mainVars, decVars, navVars, shutdown_flag>>
        /\ DecoderMoves
              => /\ UNCHANGED <<constVars, mainVars, navVars, shutdown_flag, captured>>
                 /\ \/ audio_queue' = audio_queue
                    \/ audio_queue # <<>> /\ audio_queue' = Tail(audio_queue)
        /\ recent_words' # recent_words => DecoderMoves ]_vars

\* A completed step has moved current_section while the decode thread has
\* published other words than the step processed.
C31_Witness ==
    /\ pc_nav = "loop"
    /\ current_section # start_section
    /\ previous_recent_words # <<>>
    /\ recent_words # previous_recent_words
    /\ Len(recent_words) = WindowSize

\* Right presses minus Left presses among key events.
RECURSIVE NetKeys(_)
NetKeys(keys) ==
    IF keys = <<>> THEN 0
    ELSE NetKeys(Tail(keys))
         + ( IF Head(keys) = <<"right", "press">> THEN 1
             ELSE IF Head(keys) = <<"left", "press">> THEN -1
             ELSE 0 )

PositionIn(candidates, chunk) ==
    CHOOSE k \in 1..Len(candidates) : candidates[k] = chunk

\* No raw score of either metric reaches 0.5.
AllBelowFloor ==
    /\ \A c \in DOMAIN call_result.semantic_results :
          call_result.semantic_results[c] < ScoreFloor
    /\ \A c \in DOMAIN call_result.phonetic_results :
          call_result.phonetic_results[c] < ScoreFloor

\* C33: compare keeps candidates with equal fused score in their input order;
\* when no raw score reaches 0.5 every fused score is 0 and results[0] is the
\* first candidate; and the step takes results[0] whatever its score: it
\* emits the keys towards that chunk's last source section and assigns it to
\* current_section.
C33_StableNoMinimum ==
    /\ [](CompareReturned =>
            LET value == call_result.value
                candidates == call_args.candidates
            IN  /\ \A j, k \in 1..Len(value) :
                      (j < k /\ value[j].score = value[k].score)
                         => PositionIn(candidates, value[j].chunk)
                              < PositionIn(candidates, value[k].chunk)
                /\ AllBelowFloor
                      => /\ \A j \in 1..Len(value) : value[j].score = 0
                         /\ value[1].chunk = candidates[1]
                /\ pc_nav \in {"press", "release", "assign"}
                      => target_section = Last(value[1].chunk.source_sections))
    /\ [][ (CompareReturned /\ pc_nav = "assign" /\ pc_nav' = "loop")
             => LET best == Last(call_result.value[1].chunk.source_sections)
                IN  /\ current_section' = best
                    /\ step_keys = KeyPairs(best.section_index
                                            - current_section.section_index) ]_vars

\* Every raw score was below 0.5, and the step went one section forward, to
\* the last section of the first candidate, with one Right key.
C33_Witness ==
    /\ CompareReturned
    /\ AllBelowFloor
    /\ Len(call_args.candidates) >= 2
    /\ pc_nav = "loop"
    /\ current_section = Last(call_args.candidates[1].source_sections)
    /\ current_section.section_index = start_section.section_index + 1
    /\ step_keys = <<<<"right", "press">>, <<"right", "release">>>>

\* C34: with the chunks of generate_chunks, the last source section of every
\* candidate chunk has an index of at least i - 1 for the current index i (a
\* chunk that ends in section i - 2 is that section alone and is rejected), so
\* no step moves current_section back by more than one section.
C34_BackByOneAtMost ==
    /\ [](\A k \in 1..Len(get_candidate_chunks(current_section, chunks)) :
             Last(get_candidate_chunks(current_section, chunks)[k].source_sections).section_index
                >= current_section.section_index - 1)
    /\ [](pc_nav \in {"press", "release", "assign"} => navigation_distance >= -1)
    /\ [][current_section'.section_index >= current_section.section_index - 1]_vars

\* A step goes one section back, with a single-section chunk two sections
\* back among the chunks.
C34_Witness ==
    /\ pc_nav = "assign"
    /\ navigation_distance = -1
    /\ step_keys = <<<<"left", "press">>, <<"left", "release">>>>
    /\ \E k \in 1..Len(chunks) :
          /\ Len(chunks[k].source_sections) = 1
          /\ chunks[k].source_sections[1].section_index = current_section.section_index - 2

\* The word lists the decode thread can publish.
Publishable ==
    { LastN(normalize_text(text), WindowSize) : text \in RecognizerTexts \ {<<>>} } \ {<<>>}

\* C35: under every interleaving, recent_words is empty or the words of one
\* publication, and the query of a navigation step is a list of window_size
\* words that one publication put there: never the empty or half-filled
\* recent_words between clear() and extend(), never a mixture of two
\* publications.
C35_QueryIsOnePublication ==
    /\ [](recent_words = <<>> \/ recent_words \in Publishable)
    /\ [](InStep => (Len(current_words) = WindowSize /\ current_words \in Publishable))
    /\ [][ (pc_nav = "snapshot" /\ pc_nav' = "candidates")
             => (current_words' = recent_words /\ pc_dec # "extend") ]_vars

\* A step is running on window_size words while the decode thread is between
\* the clear() and the extend() of its next publication.
C35_Witness ==
    /\ InStep
    /\ Len(current_words) = WindowSize
    /\ pc_dec = "extend"
    /\ recent_words = <<>>
    /\ words # current_words

\* After a completed step, with no step running, recent_words holds other
\* words than the step processed.
NewerWords ==
    /\ previous_recent_words # <<>>
    /\ pc_nav \in {"loop", "snapshot"}
    /\ recent_words # <<>>
    /\ recent_words # previous_recent_words

C37_ProcessRepeatable ==
    ( /\ call_args.fn = "process"
      /\ call_args.before["presentation.pdf"] # Absent
      /\ call_args.before["transcript.pdf"] # Absent
      /\ call_args.source_presentation.content # Absent
      /\ call_args.source_transcript.content # Absent
      /\ call_args.generated # Absent )
    => /\ call_result.raised = "none"
       /\ call_result.files["presentation.pdf"] = call_args.source_presentation.content
       /\ call_result.files["transcript.pdf"] = call_args.source_transcript.content
       /\ call_result.files["sections.json"] = call_args.generated
       /\ call_result.presentation_from = "SOURCE"
       /\ call_result.transcript_from = "SOURCE"

\* The call under way follows an add that returned a speaker.
AfterAdd ==
    /\ call_args.fn \in SpeakerCalls
    /\ call_result.returned
    /\ call_args.previous.fn = "add"
    /\ call_args.previous.result.raised = "none"

\* The call under way follows a delete that succeeded.
AfterDelete ==
    /\ call_args.fn \in SpeakerCalls
    /\ call_result.returned
    /\ call_args.previous.fn = "delete"
    /\ call_args.previous.result.raised = "none"

\* C38: after add has returned a speaker s, list() returns a list with s in
\* it, resolve(s.speaker_id) returns s, and an add of another name succeeds;
\* after delete(s), list() returns a list without s.
C38_StoreRoundTrip ==
    /\ AfterAdd =>
          LET s == call_args.previous.result.value
          IN  /\ call_args.fn = "list"
                    => /\ call_result.raised = "none"
                       /\ \E i \in 1..Len(call_result.value) : call_result.value[i] = s
              /\ (call_args.fn = "resolve" /\ call_args.text = s.speaker_id)
                    => /\ call_result.raised = "none"
                       /\ call_result.kind = "speaker"
                       /\ call_result.value = <<s>>
              /\ ( /\ call_args.fn = "add"
                   /\ call_args.text # s.name
                   /\ call_args.text \notin StoredIds(call_args.store) )
                    => call_result.raised = "none"
    /\ (AfterDelete /\ call_args.fn = "list")
          => /\ call_result.raised = "none"
             /\ \A i \in 1..Len(call_result.value) :
                   call_result.value[i].speaker_id # call_args.previous.text

====
